---- MODULE Spec2Model ----
(***************************************************************************)
(* DuskPool: off-chain dark-pool matching engine, its submit route, the    *)
(* whitelist Merkle tree of the prover library, the settlement circuit and *)
(* the WebSocket gateway.                                                  *)
(*                                                                         *)
(* The specifications below share the definitions of this module:         *)
(*   Spec        the engine API: submitOrder, processMatches, settleMatch  *)
(*   SpecSettle  the engine API with initializeWhitelist and real proofs   *)
(*   SpecRoute   the HTTP routes POST /submit and POST /process            *)
(*   SpecTree    buildWhitelistTree over bounded participant lists         *)
(*   SpecRebuild repeated buildWhitelistTree and initializeWhitelist calls *)
(*   SpecProver  one call of an exported prover function                   *)
(*   SpecBus     sockets, subscriptions and the event bus listeners        *)
(*   SpecGateway heartbeat and disconnects beside a working engine         *)
(*   SpecCoordinator      the settlement coordinator and its client view   *)
(*   SpecCoordinatorFair  the same, the coordinator's own steps being fair *)
(*   SpecExpiry  the submit route with order expiries and a moving clock   *)
(*   SpecDelivery gateway broadcasts received by one subscribed client     *)
(*   SpecQueue   overlapping submit requests and the settlement queue      *)
(*   SpecHook    the client WebSocket hook: connect, close, reconnect      *)
(*   SpecSubs    the hook with subscribe, unsubscribe and acknowledgements *)
(*   SpecClient  the match context: reducer, fetches and WebSocket events  *)
(*   SpecSides   the engine API given orders whose side is not 0 or 1      *)
(*   SpecSelfTrade  the event bus given a match of one trader with itself  *)
(***************************************************************************)
EXTENDS Integers, Sequences, FiniteSets, TLC

(* ------------------------------ bounds -------------------------------- *)
\* orders submitted in one behaviour
MaxOrders == 4
\* largest value of the millisecond clock
MaxTime == 1
\* longest participant list handed to buildWhitelistTree
MaxParticipants == 5

(* ------------------------- program constants -------------------------- *)
TREE_DEPTH == 20
Buy == 0
Sell == 1

\* Scalar field of the hash.  The BN254 prime does not fit 32-bit
\* integers; a small prime p with gcd(5, p - 1) = 1 stands in for it.
FieldPrime == 10007

(* --------------------- field and Poseidon primitives ------------------ *)
\* F.e(x): the least residue of any integer (negative x wraps round)
Fe(x) == x % FieldPrime

\* the x^5 S-box of Poseidon, a permutation of the field
Sbox(y) == LET y2 == (y * y) % FieldPrime
               y4 == (y2 * y2) % FieldPrime
           IN  (y4 * y) % FieldPrime

RECURSIVE Absorb(_, _, _)
Absorb(h, inputs, i) ==
    IF i > Len(inputs) THEN h
    ELSE Absorb(Sbox((h + inputs[i] + i) % FieldPrime), inputs, i + 1)

\* poseidon(inputs): deterministic, field valued, keyed by the arity,
\* injective in each input when the others are fixed
Poseidon(inputs) == Absorb(Len(inputs), inputs, 1)

(* ------------------------- commitment service ------------------------- *)
\* "A1" and "A2" read as big-endian bytes: 0x4131 and 0x4132
AssetBytes(assetAddress) == IF assetAddress = "A1" THEN 16689 ELSE 16690

hashAssetAddress(assetAddress) == Poseidon(<<Fe(AssetBytes(assetAddress))>>)

\* nonce and secret hashed in the other order
OrderCommitmentSwapped(assetHash, side, quantity, price, nonce, secret) ==
    Poseidon(<<Fe(assetHash), Fe(side), Fe(quantity), Fe(price),
               Fe(secret), Fe(nonce)>>)

\* the commitment generateOrderCommitment derives from explicit values
OrderCommitment(assetHash, side, quantity, price, nonce, secret) ==
    Poseidon(<<Fe(assetHash), Fe(side), Fe(quantity), Fe(price),
               Fe(nonce), Fe(secret)>>)

\* the two secrets hashed one after the other instead of summed
computeNullifierSeparate(buyCommitment, sellCommitment, quantity, buyerSecret, sellerSecret) ==
    Poseidon(<<Fe(buyCommitment), Fe(sellCommitment), Fe(quantity),
               Fe(buyerSecret), Fe(sellerSecret)>>)

\* the seller's secret left out of the sum
computeNullifierBuyerOnly(buyCommitment, sellCommitment, quantity, buyerSecret, sellerSecret) ==
    Poseidon(<<Fe(buyCommitment), Fe(sellCommitment), Fe(quantity),
               Fe(buyerSecret)>>)

computeNullifier(buyCommitment, sellCommitment, quantity, buyerSecret, sellerSecret) ==
    Poseidon(<<Fe(buyCommitment), Fe(sellCommitment), Fe(quantity),
               Fe(buyerSecret + sellerSecret)>>)

(* ------------------------------ matcher ------------------------------- *)
\* BigInt division truncates toward zero

BigIntDiv(a, b) == IF a >= 0 THEN a \div b ELSE -((-a) \div b)

\* price ascending for buys too
BuyBeforeCheapest(a, b) ==
    IF a.price # b.price THEN a.price - b.price < 0
    ELSE a.timestamp - b.timestamp < 0

\* comparator of buys.sort: price descending, then timestamp ascending
BuyBefore(a, b) ==
    IF a.price # b.price THEN b.price - a.price < 0
    ELSE a.timestamp - b.timestamp < 0

\* time before price
SellBeforeMutant(a, b) ==
    IF a.timestamp # b.timestamp THEN a.timestamp - b.timestamp < 0
    ELSE a.price - b.price < 0

\* comparator of sells.sort: price ascending, then timestamp ascending
SellBefore(a, b) ==
    IF a.price # b.price THEN a.price - b.price < 0
    ELSE a.timestamp - b.timestamp < 0

Before(side, a, b) == IF side = Buy THEN BuyBefore(a, b) ELSE SellBefore(a, b)

\* x goes in front of the first element it sorts strictly before
RECURSIVE InsertSorted(_, _, _)
InsertSorted(side, x, s) ==
    IF s = <<>> THEN <<x>>
    ELSE IF Before(side, x, Head(s)) THEN <<x>> \o s
    ELSE <<Head(s)>> \o InsertSorted(side, x, Tail(s))

\* Array.prototype.sort is stable: equal elements keep their order
RECURSIVE SortFrom(_, _, _, _)
SortFrom(side, s, i, acc) ==
    IF i > Len(s) THEN acc
    ELSE SortFrom(side, s, i + 1, InsertSorted(side, s[i], acc))

sortOrders(side, s) == SortFrom(side, s, 1, <<>>)

\* inner loop of matchOrders: the first unclaimed sell, from index j on,
\* that the buy crosses and whose quantity is the buy's; 0 when none
RECURSIVE FindSell(_, _, _, _)
FindSell(buyOrder, sells, j, matchedSells) ==
    IF j > Len(sells) THEN 0
    ELSE IF j \in matchedSells THEN FindSell(buyOrder, sells, j + 1, matchedSells)
    ELSE IF buyOrder.price < sells[j].price
         THEN FindSell(buyOrder, sells, j + 1, matchedSells)
    ELSE IF buyOrder.quantity # sells[j].quantity
         THEN FindSell(buyOrder, sells, j + 1, matchedSells)
    ELSE j

\* the Match record built for a pair; matchId is fresh, t is Date.now()
NewMatch(id, buyOrder, sellOrder, t) ==
    [matchId |-> id,
     buyOrder |-> buyOrder,
     sellOrder |-> sellOrder,
     executionPrice |-> BigIntDiv(buyOrder.price + sellOrder.price, 2),
     executionQuantity |-> buyOrder.quantity,
     timestamp |-> t]

\* outer loop of matchOrders over the sorted buys
RECURSIVE MatchLoop(_, _, _, _, _)
MatchLoop(buys, sells, i, acc, t) ==
    IF i > Len(buys) THEN acc
    ELSE LET j == FindSell(buys[i], sells, 1, acc.matchedSells)
         IN  IF j = 0 THEN MatchLoop(buys, sells, i + 1, acc, t)
             ELSE MatchLoop(buys, sells, i + 1,
                     [matches |-> Append(acc.matches,
                                    NewMatch(acc.nextId, buys[i], sells[j], t)),
                      matchedBuys |-> acc.matchedBuys \cup {i},
                      matchedSells |-> acc.matchedSells \cup {j},
                      nextId |-> acc.nextId + 1], t)

\* the claimed orders are not removed
FilterOutKeepAll(s, i, drop) == SubSeq(s, i, Len(s))

\* the filter keeps the claimed orders and drops the others
RECURSIVE FilterOutInverted(_, _, _)
FilterOutInverted(s, i, drop) ==
    IF i > Len(s) THEN <<>>
    ELSE IF i \notin drop THEN FilterOutInverted(s, i + 1, drop)
    ELSE <<s[i]>> \o FilterOutInverted(s, i + 1, drop)

\* Array.prototype.filter by index
RECURSIVE FilterOut(_, _, _)
FilterOut(s, i, drop) ==
    IF i > Len(s) THEN <<>>
    ELSE IF i \in drop THEN FilterOut(s, i + 1, drop)
    ELSE <<s[i]>> \o FilterOut(s, i + 1, drop)

\* matchOrders on one asset's two books: the books it leaves and the
\* matches it emits, in emission order
matchOrders(buys, sells, firstId, t) ==
    IF Len(buys) = 0 \/ Len(sells) = 0
    THEN [buys |-> buys, sells |-> sells, matches |-> <<>>]
    ELSE LET sb == sortOrders(Buy, buys)
             ss == sortOrders(Sell, sells)
             r  == MatchLoop(sb, ss, 1,
                      [matches |-> <<>>, matchedBuys |-> {},
                       matchedSells |-> {}, nextId |-> firstId], t)
         IN  [buys |-> FilterOut(sb, 1, r.matchedBuys),
              sells |-> FilterOut(ss, 1, r.matchedSells),
              matches |-> r.matches]

(* --------------------------- whitelist tree --------------------------- *)
RECURSIVE Pow2(_)
Pow2(n) == IF n = 0 THEN 1 ELSE 2 * Pow2(n - 1)

\* Math.ceil(Math.log2(n)) for n >= 1: the least d with 2^d >= n
RECURSIVE CeilLog2From(_, _)
CeilLog2From(n, d) == IF Pow2(d) >= n THEN d ELSE CeilLog2From(n, d + 1)

Max(a, b) == IF a >= b THEN a ELSE b

actualDepthOf(nLeaves) == Max(1, CeilLog2From(Max(2, nLeaves), 0))

\* leaves[i] = poseidon([F.e(BigInt(participants[i]))])
leafHashes(participants) ==
    [i \in 1..Len(participants) |-> Poseidon(<<Fe(participants[i])>>)]

\* pad with 0n up to 2^actualDepth leaves
paddedLeaves(participants) ==
    LET l == leafHashes(participants)
        n == Pow2(actualDepthOf(Len(l)))
    IN  [i \in 1..Max(n, Len(l)) |-> IF i <= Len(l) THEN l[i] ELSE 0]

hashPair(left, right) == Poseidon(<<Fe(left), Fe(right)>>)

\* zeros[0] = 0, zeros[i] = poseidon([zeros[i-1], zeros[i-1]]), i <= TREE_DEPTH
RECURSIVE ZerosFrom(_)
ZerosFrom(z) ==
    IF Len(z) > TREE_DEPTH THEN z
    ELSE ZerosFrom(Append(z, hashPair(z[Len(z)], z[Len(z)])))

\* zeros[k] of the code is zeros[k + 1] here (sequences start at 1)
zeros == ZerosFrom(<<0>>)

nextLevelOf(currentLevel) ==
    [k \in 1..(Len(currentLevel) \div 2) |->
        hashPair(currentLevel[2 * k - 1], currentLevel[2 * k])]

\* treeLevels[0 .. actualDepth], bottom-up (index shifted by one)
RECURSIVE TreeLevelsFrom(_, _, _)
TreeLevelsFrom(levels, level, actualDepth) ==
    IF level >= actualDepth THEN levels
    ELSE TreeLevelsFrom(Append(levels, nextLevelOf(levels[Len(levels)])),
                        level + 1, actualDepth)

\* the zero subtree is hashed on the left
RECURSIVE ExtendRootMutant(_)
ExtendRootMutant(loop) ==
    IF loop.level >= TREE_DEPTH THEN loop.root
    ELSE ExtendRootMutant([root |-> hashPair(zeros[loop.level + 1], loop.root),
                           level |-> loop.level + 1])

\* extend the dense root with zero subtrees on the right up to TREE_DEPTH;
\* loop = the variables root and level of the for loop
RECURSIVE ExtendRoot(_)
ExtendRoot(loop) ==
    IF loop.level >= TREE_DEPTH THEN loop.root
    ELSE ExtendRoot([root |-> hashPair(loop.root, zeros[loop.level + 1]),
                     level |-> loop.level + 1])

\* the first loop of a proof: walk up the dense tree from leaf `index`
RECURSIVE WalkUp(_, _, _, _, _)
WalkUp(treeLevels, index, level, actualDepth, acc) ==
    IF level >= actualDepth THEN acc
    ELSE LET isRight == index % 2 = 1
             siblingIndex == IF isRight THEN index - 1 ELSE index + 1
             sibling == treeLevels[level + 1][siblingIndex + 1]
         IN  WalkUp(treeLevels, index \div 2, level + 1, actualDepth,
                    [pathElements |-> Append(acc.pathElements, sibling),
                     pathIndices |-> Append(acc.pathIndices,
                                            IF isRight THEN 1 ELSE 0)])

\* the ladder is read one level too low
RECURSIVE ExtendPathMutant(_)
ExtendPathMutant(loop) ==
    IF loop.level >= TREE_DEPTH
    THEN [pathElements |-> loop.pathElements, pathIndices |-> loop.pathIndices]
    ELSE ExtendPathMutant(
            [pathElements |-> Append(loop.pathElements, zeros[loop.level]),
             pathIndices |-> Append(loop.pathIndices, 0),
             level |-> loop.level + 1])

\* the second loop of a proof: zero subtrees, always on the right;
\* loop = pathElements, pathIndices and the level of the for loop
RECURSIVE ExtendPath(_)
ExtendPath(loop) ==
    IF loop.level >= TREE_DEPTH
    THEN [pathElements |-> loop.pathElements, pathIndices |-> loop.pathIndices]
    ELSE ExtendPath(
            [pathElements |-> Append(loop.pathElements, zeros[loop.level + 1]),
             pathIndices |-> Append(loop.pathIndices, 0),
             level |-> loop.level + 1])

\* the MerkleProof emitted for participant i (0-based)
proofFor(treeLevels, leaves, i, actualDepth) ==
    LET up == WalkUp(treeLevels, i, 0, actualDepth,
                     [pathElements |-> <<>>, pathIndices |-> <<>>])
        full == ExtendPath([pathElements |-> up.pathElements,
                            pathIndices |-> up.pathIndices,
                            level |-> actualDepth])
    IN  [idHash |-> leaves[i + 1],
         pathElements |-> full.pathElements,
         pathIndices |-> full.pathIndices]

\* buildWhitelistTree: the root and the proofs, keyed by 0-based index
buildWhitelistTree(participants) ==
    LET leaves == paddedLeaves(participants)
        actualDepth == actualDepthOf(Len(participants))
        treeLevels == TreeLevelsFrom(<<leaves>>, 0, actualDepth)
        denseRoot == treeLevels[Len(treeLevels)][1]
    IN  [root |-> ExtendRoot([root |-> denseRoot, level |-> actualDepth]),
         proofs |-> [i \in 0..(Len(participants) - 1) |->
                        proofFor(treeLevels, leaves, i, actualDepth)]]

(* ------------------------- settlement circuit ------------------------- *)
\* DualMux and MerkleLevel: one level of MerkleTreeProof
merkleLevel(current, element, sel) ==
    LET outL == Fe(current + (element - current) * sel)
        outR == Fe(element + (current - element) * sel)
    IN  hashPair(outL, outR)

\* MerkleTreeProof(levels): the signal array hashes[0 .. levels], with
\* hashes[0] = leaf and hashes[i + 1] the output of level i
RECURSIVE merkleHashes(_, _, _)
merkleHashes(hashes, pathElements, pathIndices) ==
    IF Len(hashes) > Len(pathElements) THEN hashes
    ELSE merkleHashes(
            Append(hashes, merkleLevel(hashes[Len(hashes)],
                                       pathElements[Len(hashes)],
                                       pathIndices[Len(hashes)])),
            pathElements, pathIndices)

\* root <== hashes[levels]
merkleRoot(leaf, pathElements, pathIndices) ==
    LET hashes == merkleHashes(<<leaf>>, pathElements, pathIndices)
    IN  hashes[Len(hashes)]

\* MerkleTreeVerifier(TREE_DEPTH): array sizes, binary selectors, root
merkleVerifies(leaf, pathElements, pathIndices, expectedRoot) ==
    /\ Len(pathElements) = TREE_DEPTH
    /\ Len(pathIndices) = TREE_DEPTH
    /\ \A k \in 1..TREE_DEPTH : Fe(pathIndices[k] * (pathIndices[k] - 1)) = 0
    /\ merkleRoot(Fe(leaf), pathElements, pathIndices) = Fe(expectedRoot)

\* constraint 3: buyCommitHasher.out === buyCommitment
buyCommitmentHolds(input) ==
    Poseidon(<<Fe(input.assetHash), 0, Fe(input.matchedQuantity),
               Fe(input.executionPrice), Fe(input.buyOrderNonce),
               Fe(input.buyOrderSecret)>>) = Fe(input.buyCommitment)

\* constraint 4: sellCommitHasher.out === sellCommitment
sellCommitmentHolds(input) ==
    Poseidon(<<Fe(input.assetHash), 1, Fe(input.matchedQuantity),
               Fe(input.executionPrice), Fe(input.sellOrderNonce),
               Fe(input.sellOrderSecret)>>) = Fe(input.sellCommitment)

\* output: nullifierHash <== Poseidon(buyC, sellC, qty, buySecret + sellSecret)
circuitNullifier(input) ==
    Poseidon(<<Fe(input.buyCommitment), Fe(input.sellCommitment),
               Fe(input.matchedQuantity),
               Fe(Fe(input.buyOrderSecret) + Fe(input.sellOrderSecret))>>)

\* the two commitment constraints are left out
SettlementProofMutant(input) ==
    IF ~merkleVerifies(input.buyerIdHash, input.buyerMerkleProof,
                       input.buyerMerkleIndices, input.whitelistRoot)
        THEN [ok |-> FALSE, error |-> "buyer merkle", nullifierHash |-> <<>>]
    ELSE IF ~merkleVerifies(input.sellerIdHash, input.sellerMerkleProof,
                            input.sellerMerkleIndices, input.whitelistRoot)
        THEN [ok |-> FALSE, error |-> "seller merkle", nullifierHash |-> <<>>]
    ELSE [ok |-> TRUE, error |-> "", nullifierHash |-> <<circuitNullifier(input)>>]

\* groth16.fullProve: the witness exists iff every constraint holds
SettlementProof(input) ==
    IF ~merkleVerifies(input.buyerIdHash, input.buyerMerkleProof,
                       input.buyerMerkleIndices, input.whitelistRoot)
        THEN [ok |-> FALSE, error |-> "buyer merkle", nullifierHash |-> <<>>]
    ELSE IF ~merkleVerifies(input.sellerIdHash, input.sellerMerkleProof,
                            input.sellerMerkleIndices, input.whitelistRoot)
        THEN [ok |-> FALSE, error |-> "seller merkle", nullifierHash |-> <<>>]
    ELSE IF ~buyCommitmentHolds(input)
        THEN [ok |-> FALSE, error |-> "line: 77", nullifierHash |-> <<>>]
    ELSE IF ~sellCommitmentHolds(input)
        THEN [ok |-> FALSE, error |-> "line: 87", nullifierHash |-> <<>>]
    ELSE [ok |-> TRUE, error |-> "", nullifierHash |-> <<circuitNullifier(input)>>]

(* ------------------------------- state -------------------------------- *)
VARIABLES
    buyOrders,          \* engine: asset -> resting buys
    sellOrders,         \* engine: asset -> resting sells
    matchQueue,         \* engine: matches awaiting processMatches
    completedMatches,   \* engine: every match ever emitted
    whitelistRoot,      \* engine: <<>> for "", else <<root>>
    whitelistProofs,    \* engine: index -> MerkleProof
    invocations,        \* processMatches calls suspended in settleMatch
    lastReturned,       \* results of the processMatches call that returned last
    settlementResults,  \* routes/matches.ts: the stored settlement results
    queued,             \* the matchIds queueSettlement was called with, in order
    now,                \* Date.now()
    nOrders,            \* orders submitted so far; the next order's identity
    lastPass,           \* the books and the matches of the last matching pass
    lastResponse,       \* the last response body of POST /submit
    treeParticipants,   \* input of the last buildWhitelistTree call
    tree,               \* what that call returned
    snapshots,          \* heap: the object each buildWhitelistTree call returned
    call,               \* prover library: the function called and its arguments
    returned,           \* prover library: what the call returned
    readyState,         \* gateway: socket -> CONNECTING, OPEN or CLOSED
    isAlive,            \* gateway: socket -> the isAlive flag
    subscriptions,      \* gateway: channel -> the sockets subscribed
    lastPublished,      \* gateway: the last event on the bus and its fan-out
    unanswered,         \* gateway: socket -> pings sent since its last pong
    heartbeatTerminated,\* gateway: sockets the heartbeat has terminated
    ticks,              \* gateway: heartbeat ticks so far
    records,            \* coordinator: matchId -> the settlement record
    busLog,             \* event bus: matchId -> the events accepted, in order
    offChainMatches,    \* client: the matches of the reducer's state
    seen,               \* client: matchId -> events of busLog handled so far
    accepted,           \* event bus: events accepted so far
    inflight,           \* gateway: socket -> messages sent and not yet received
    listened,           \* client hook: socket -> the events its listeners got
    wsRef,              \* client hook: wsRef.current, 0 for null
    clientSockets,      \* client hook: the WebSockets created -> readyState
    connectionState,    \* client hook: the connectionState of the hook
    reconnectAttemptsRef, \* client hook: reconnectAttemptsRef.current
    reconnectTimeoutRef,  \* client hook: the timer last set, 0 for null
    timers,             \* client hook: the reconnect timers still pending
    scheduled,          \* every reconnect scheduled: its delay and its rank
    openedAt,           \* reconnects scheduled before the last open
    pendingSubscriptionsRef, \* client hook: pendingSubscriptionsRef.current
    subscribedChannels, \* client hook: the subscribedChannels state
    retryTimers,        \* client hook: channels whose 100 ms retry is pending
    sentOn,             \* socket -> channels a subscribe was sent for
    acks,               \* "subscribed" replies on their way to the client
    wanted,             \* channels subscribed and not unsubscribed since
    reconnects,         \* the sockets a reconnect timer created
    userClosed,         \* disconnect() was called and connect() not since
    matchState,         \* useMatchState: the state of matchReducer
    wsConnected,        \* useMatchState: the wsConnected prop
    walletReady,        \* useMatchState: address and selectedAsset are set
    wasConnectedRef,    \* useMatchState: wasConnectedRef.current
    isInitializedRef,   \* useMatchState: isInitializedRef.current
    fetches,            \* useMatchState: API requests whose answer is awaited
    refetchAllCalls,    \* useMatchState: calls of refetchAll so far
    confirmedHandled,   \* matchIds whose settlement:confirmed was handled
    duplicateAdd        \* an ADD_MATCH of a matchId already shown was dispatched

vars == <<buyOrders, sellOrders, matchQueue, completedMatches, whitelistRoot,
          whitelistProofs, invocations, lastReturned, settlementResults,
          queued, now,
          nOrders, lastPass, lastResponse, treeParticipants, tree, snapshots,
          call, returned, readyState, isAlive, subscriptions, lastPublished,
          unanswered, heartbeatTerminated, ticks, records, busLog,
          offChainMatches, seen, accepted, inflight, listened, wsRef,
          clientSockets, connectionState, reconnectAttemptsRef,
          reconnectTimeoutRef, timers, scheduled, openedAt,
          pendingSubscriptionsRef, subscribedChannels, retryTimers, sentOn,
          acks, wanted, reconnects, userClosed, matchState, wsConnected,
          walletReady, wasConnectedRef, isInitializedRef, fetches,
          refetchAllCalls, confirmedHandled, duplicateAdd>>

engineVars == <<buyOrders, sellOrders, matchQueue, completedMatches, now,
                nOrders, lastPass>>
whitelistVars == <<whitelistRoot, whitelistProofs>>
workerVars == <<invocations, lastReturned, settlementResults, queued>>
treeVars == <<treeParticipants, tree>>
heapVars == <<snapshots>>
proverVars == <<call, returned>>
wsVars == <<readyState, isAlive, subscriptions, lastPublished, unanswered,
            heartbeatTerminated, ticks>>
coordVars == <<records, busLog, offChainMatches, seen>>
deliveryVars == <<accepted, inflight, listened>>
subsVars == <<pendingSubscriptionsRef, subscribedChannels, retryTimers,
              sentOn, acks, wanted>>
hookVars == <<wsRef, clientSockets, connectionState, reconnectAttemptsRef,
              reconnectTimeoutRef, timers, scheduled, openedAt, subsVars,
              reconnects, userClosed>>
clientVars == <<matchState, wsConnected, walletReady, wasConnectedRef,
                isInitializedRef, fetches, refetchAllCalls, confirmedHandled,
                duplicateAdd>>
pipelineVars == <<coordVars, deliveryVars, hookVars, clientVars>>
auxVars == <<heapVars, proverVars, wsVars, pipelineVars>>

Assets == {"A1", "A2"}

NoPass == [asset |-> "", buys |-> <<>>, sells |-> <<>>, matches |-> <<>>]
NoResponse == [status |-> 0, pendingMatches |-> 0, matched |-> FALSE,
               noMatchReason |-> FALSE, buyOrders |-> 0, sellOrders |-> 0]
NoTree == [root |-> 0, proofs |-> <<>>]

\* the state the constructor and the module initialisers leave
InitServer ==
    /\ buyOrders = [a \in Assets |-> <<>>]
    /\ sellOrders = [a \in Assets |-> <<>>]
    /\ matchQueue = <<>>
    /\ completedMatches = <<>>
    /\ whitelistRoot = <<>>
    /\ whitelistProofs = <<>>
    /\ invocations = {}
    /\ lastReturned = <<>>
    /\ settlementResults = <<>>
    /\ queued = <<>>
    /\ now = 0
    /\ nOrders = 0
    /\ lastPass = NoPass
    /\ lastResponse = NoResponse

\* nothing allocated, nothing called, nobody connected
NoCall == [op |-> ""]
NoReturn == [op |-> ""]

InitHeap == snapshots = <<>>

\* the sockets that may connect, and what channels are named after
Sockets == {1, 2}
Traders == {"T1", "T2"}
MatchIds == {"m1"}

\* `orderbook:${asset}`, `trader:${address}`, `settlement:${matchId}`
Channel(prefix, key) == <<prefix, key>>

Channels ==
    {Channel("orderbook", "A1")} \cup {Channel("trader", tr) : tr \in Traders}
        \cup {Channel("settlement", m) : m \in MatchIds}

NoEvent == [seq |-> 0, event |-> "", data |-> <<>>, channels |-> <<>>,
            deliveries |-> {}]

\* new MatchingEngineWebSocket(server): nobody connected, nothing subscribed
InitWs ==
    /\ readyState = [ws \in Sockets |-> "CONNECTING"]
    /\ isAlive = [ws \in Sockets |-> FALSE]
    /\ subscriptions = [ch \in Channels |-> {}]
    /\ lastPublished = NoEvent
    /\ unanswered = [ws \in Sockets |-> 0]
    /\ heartbeatTerminated = {}
    /\ ticks = 0

\* the matches the settlement pipeline is followed for
CoordMatches == {"m1", "m2"}

\* a match as the engine emitted it; no settlement record exists yet
NoRecord == [status |-> "matched", buyerSigned |-> FALSE, sellerSigned |-> FALSE,
             attempts |-> 0]

\* formatMatch with settlement undefined: status 'matched', the flags
\* undefined (falsy)
formatMatch(matchId) ==
    [matchId |-> matchId, status |-> "matched", buyerSigned |-> FALSE,
     sellerSigned |-> FALSE, error |-> ""]

\* the coordinator holds no record; the client has fetched its matches
InitCoord ==
    /\ records = [m \in CoordMatches |-> NoRecord]
    /\ busLog = [m \in CoordMatches |-> <<>>]
    /\ offChainMatches = <<formatMatch("m1"), formatMatch("m2")>>
    /\ seen = [m \in CoordMatches |-> 0]

\* nothing emitted, nothing sent
InitDelivery ==
    /\ accepted = 0
    /\ inflight = [ws \in Sockets |-> <<>>]
    /\ listened = [ws \in Sockets |-> <<>>]

\* useMatchingEngineWS before its mount effect has run
InitHook ==
    /\ wsRef = 0
    /\ clientSockets = <<>>
    /\ connectionState = "disconnected"
    /\ reconnectAttemptsRef = 0
    /\ reconnectTimeoutRef = 0
    /\ timers = {}
    /\ scheduled = <<>>
    /\ openedAt = 0
    /\ pendingSubscriptionsRef = {}
    /\ subscribedChannels = {}
    /\ retryTimers = {}
    /\ sentOn = <<>>
    /\ acks = {}
    /\ wanted = {}
    /\ reconnects = {}
    /\ userClosed = FALSE

\* initialMatchState of matchReducer
initialMatchState ==
    [offChainMatches |-> <<>>, openOrders |-> <<>>, optimisticOrders |-> {},
     lastSyncTimestamp |-> 0]

\* useMatchState mounted without a wallet and without a connection
InitClient ==
    /\ matchState = initialMatchState
    /\ wsConnected = FALSE
    /\ walletReady = FALSE
    /\ wasConnectedRef = FALSE
    /\ isInitializedRef = FALSE
    /\ fetches = <<>>
    /\ refetchAllCalls = 0
    /\ confirmedHandled = {}
    /\ duplicateAdd = FALSE

InitPipeline ==
    /\ InitCoord
    /\ InitDelivery
    /\ InitHook
    /\ InitClient

InitAux ==
    /\ InitWs
    /\ InitPipeline
    /\ InitHeap
    /\ call = NoCall
    /\ returned = NoReturn

Init ==
    /\ InitServer
    /\ InitAux
    /\ treeParticipants = <<>>
    /\ tree = NoTree

(* ------------------------------ engine -------------------------------- *)
\* a PrivateOrder; id is the identity of the object
PrivateOrder(id, commitment, assetAddress, side, quantity, price, secret, nonce, timestamp, whitelistIndex) ==
    [id |-> id, commitment |-> commitment, assetAddress |-> assetAddress,
     side |-> side, quantity |-> quantity, price |-> price, secret |-> secret,
     nonce |-> nonce, timestamp |-> timestamp, whitelistIndex |-> whitelistIndex]

\* submitOrder with one book per side, whatever the asset
submitOrderOneBook(order) ==
    LET isBuy == order.side = Buy
        a == "A1"
        buys == IF isBuy THEN Append(buyOrders[a], order) ELSE buyOrders[a]
        sells == IF isBuy THEN sellOrders[a] ELSE Append(sellOrders[a], order)
        r == matchOrders(buys, sells, Len(completedMatches) + 1, order.timestamp)
    IN  [buyOrders |-> [buyOrders EXCEPT ![a] = r.buys],
         sellOrders |-> [sellOrders EXCEPT ![a] = r.sells],
         matchQueue |-> matchQueue \o r.matches,
         completedMatches |-> completedMatches \o r.matches,
         pass |-> [asset |-> a, buys |-> buys, sells |-> sells,
                   matches |-> r.matches]]

\* submitOrder: push on the book of the order's side, then matchOrders;
\* the value is the engine state the call leaves (pass: the books the
\* matching pass started from and the matches it emitted)
submitOrder(order) ==
    LET isBuy == order.side = Buy
        a == order.assetAddress
        buys == IF isBuy THEN Append(buyOrders[a], order) ELSE buyOrders[a]
        sells == IF isBuy THEN sellOrders[a] ELSE Append(sellOrders[a], order)
        r == matchOrders(buys, sells, Len(completedMatches) + 1, order.timestamp)
    IN  [buyOrders |-> [buyOrders EXCEPT ![a] = r.buys],
         sellOrders |-> [sellOrders EXCEPT ![a] = r.sells],
         matchQueue |-> matchQueue \o r.matches,
         completedMatches |-> completedMatches \o r.matches,
         pass |-> [asset |-> a, buys |-> buys, sells |-> sells,
                   matches |-> r.matches]]

\* the input object settleMatch hands to generateSettlementProof
tradeInput(match, buyerProof, sellerProof, root) ==
    [buyerIdHash |-> buyerProof.idHash,
     buyerMerkleProof |-> buyerProof.pathElements,
     buyerMerkleIndices |-> buyerProof.pathIndices,
     sellerIdHash |-> sellerProof.idHash,
     sellerMerkleProof |-> sellerProof.pathElements,
     sellerMerkleIndices |-> sellerProof.pathIndices,
     buyOrderSecret |-> match.buyOrder.secret,
     buyOrderNonce |-> match.buyOrder.nonce,
     sellOrderSecret |-> match.sellOrder.secret,
     sellOrderNonce |-> match.sellOrder.nonce,
     buyCommitment |-> match.buyOrder.commitment,
     sellCommitment |-> match.sellOrder.commitment,
     assetHash |-> hashAssetAddress(match.buyOrder.assetAddress),
     matchedQuantity |-> match.executionQuantity,
     executionPrice |-> match.executionPrice,
     whitelistRoot |-> root]

\* settleMatch up to its first await: the two whitelistProofs.get calls;
\* <<>> when either is missing (the throw is caught further down)
settleBegin(match) ==
    IF /\ match.buyOrder.whitelistIndex \in DOMAIN whitelistProofs
       /\ match.sellOrder.whitelistIndex \in DOMAIN whitelistProofs
    THEN <<whitelistProofs[match.buyOrder.whitelistIndex],
           whitelistProofs[match.sellOrder.whitelistIndex]>>
    ELSE <<>>

\* the catch block of settleMatch, which ignores what it caught
failedResultSilent(match, message) ==
    [matchId |-> match.matchId, proof |-> <<>>, publicSignals |-> <<>>,
     success |-> FALSE, nullifierHash |-> <<>>, error |-> ""]

\* the catch block of settleMatch: Buffer.alloc(0) twice, "" for the
\* nullifier (<<>>) and the message of the error caught
failedResult(match, message) ==
    [matchId |-> match.matchId, proof |-> <<>>, publicSignals |-> <<>>,
     success |-> FALSE, nullifierHash |-> <<>>, error |-> message]

\* settleMatch after the await: whitelistRoot is read here, the proof is
\* generated, and every failure becomes a result with success = false
settleFinish(match, captured) ==
    IF captured = <<>> THEN failedResult(match, "Merkle proof not found")
    ELSE IF whitelistRoot = <<>> THEN failedResult(match, "whitelistRoot")
    ELSE LET p == SettlementProof(
                    tradeInput(match, captured[1], captured[2], whitelistRoot[1]))
         IN  IF p.ok
             THEN [matchId |-> match.matchId, proof |-> <<"proofBytes">>,
                   publicSignals |-> <<"signalsBytes">>, success |-> TRUE,
                   nullifierHash |-> p.nullifierHash, error |-> ""]
             ELSE failedResult(match, p.error)

\* this.matchQueue.shift(): the match removed and the queue left
shiftMutant(q) == [match |-> q[Len(q)], rest |-> SubSeq(q, 1, Len(q) - 1)]

\* this.matchQueue.shift() reading the head and leaving it in the queue and left in the queue
shiftPeek(q) == [match |-> Head(q), rest |-> q]

shift(q) == [match |-> Head(q), rest |-> Tail(q)]

\* processMatches is entered with `queue` as this.matchQueue: with an
\* empty queue it returns []; otherwise it shifts the head and suspends
\* in settleMatch
processMatches(queue, caller) ==
    IF queue = <<>>
    THEN /\ lastReturned' = <<>>
         /\ matchQueue' = queue
         /\ UNCHANGED invocations
    ELSE /\ matchQueue' = shift(queue).rest
         /\ invocations' = invocations \cup
               {[caller |-> caller, cur |-> shift(queue).match,
                 captured |-> settleBegin(shift(queue).match),
                 results |-> <<>>]}
         /\ UNCHANGED lastReturned

\* POST /process and the submit route hand a result to queueSettlement
\* only when the proof succeeded
shouldQueueAlways(success) == TRUE

shouldQueue(success) == success

\* the matchIds of the results the loop over `results` queues, in order
RECURSIVE queuedOf(_)
queuedOf(results) ==
    IF results = <<>> THEN <<>>
    ELSE (IF shouldQueue(Head(results).success)
          THEN <<Head(results).matchId>> ELSE <<>>)
         \o queuedOf(Tail(results))

\* what both routes do with the results of their processMatches call
storeResults(caller, results) ==
    IF caller = "api" THEN UNCHANGED <<settlementResults, queued>>
    ELSE /\ settlementResults' = settlementResults \o results
         /\ queued' = queued \o queuedOf(results)

\* a suspended processMatches resumes: the result is pushed, then the
\* loop either shifts the next match or returns the results
SettleStep(inv) ==
    /\ inv \in invocations
    /\ LET results == Append(inv.results, settleFinish(inv.cur, inv.captured))
       IN  IF matchQueue # <<>>
           THEN /\ matchQueue' = shift(matchQueue).rest
                /\ invocations' = (invocations \ {inv}) \cup
                      {[caller |-> inv.caller, cur |-> shift(matchQueue).match,
                        captured |-> settleBegin(shift(matchQueue).match),
                        results |-> results]}
                /\ UNCHANGED <<lastReturned, settlementResults, queued>>
           ELSE /\ invocations' = invocations \ {inv}
                /\ lastReturned' = results
                /\ storeResults(inv.caller, results)
                /\ UNCHANGED matchQueue
    /\ UNCHANGED <<buyOrders, sellOrders, completedMatches, now, nOrders,
                   lastPass, lastResponse>>
    /\ UNCHANGED whitelistVars
    /\ UNCHANGED <<treeVars, auxVars>>

(* ----------------------- the engine API (Spec) ------------------------ *)
Sides == {Buy, Sell}
\* the side field of a request body is any number; 2 is neither side
SentSides == {0, 1, 2}
Quantities == {1, 2}
\* the engine takes any bigint: negative prices are not rejected anywhere
Prices == {-2, 1, 2}
Secrets == {5}
Nonces == {7}

\* readings of Date.now(): the clock never runs backwards
Clock == {t \in now..(now + 1) : t <= MaxTime}

\* generateOrderCommitment with explicit nonce and secret, tabulated once
\* over the inputs the runs draw from
honestCommitment ==
    [x \in Assets \X SentSides \X Quantities \X Prices \X Nonces \X Secrets |->
        OrderCommitment(hashAssetAddress(x[1]), x[2], x[3], x[4], x[5], x[6])]

\* the order a caller builds; its commitment is honest or off by one
newOrder(assetAddress, side, quantity, price, secret, nonce, honest, whitelistIndex, t) ==
    LET c == honestCommitment[<<assetAddress, side, quantity, price, nonce, secret>>]
    IN  PrivateOrder(nOrders + 1, IF honest THEN c ELSE Fe(c + 1),
                     assetAddress, side, quantity, price, secret, nonce, t,
                     whitelistIndex)

\* engine.submitOrder(order)
SubmitOrder(order) ==
    /\ nOrders' = nOrders + 1
    /\ now' = order.timestamp
    /\ LET engine == submitOrder(order)
       IN  /\ buyOrders' = engine.buyOrders
           /\ sellOrders' = engine.sellOrders
           /\ matchQueue' = engine.matchQueue
           /\ completedMatches' = engine.completedMatches
           /\ lastPass' = engine.pass
    /\ UNCHANGED <<lastResponse>>
    /\ UNCHANGED workerVars
    /\ UNCHANGED whitelistVars
    /\ UNCHANGED <<treeVars, auxVars>>

\* engine.processMatches()
ProcessMatches ==
    /\ matchQueue # <<>>
    /\ processMatches(matchQueue, "api")
    /\ UNCHANGED <<buyOrders, sellOrders, completedMatches, now, nOrders,
                   lastPass, lastResponse, settlementResults, queued>>
    /\ UNCHANGED whitelistVars
    /\ UNCHANGED <<treeVars, auxVars>>

\* the orders of the engine runs: every side, quantity and price on the
\* first asset; one quantity and one price on the second, which is there
\* to interleave with the first
EngineShapes ==
    {sh \in Assets \X Sides \X Quantities \X Prices :
        sh[1] = "A1" \/ (sh[3] = 1 /\ sh[4] = 2)}

EngineOrders ==
    {newOrder(sh[1], sh[2], sh[3], sh[4], s, n, TRUE, 0, t) :
        sh \in EngineShapes, s \in Secrets, n \in Nonces, t \in Clock}

Next ==
    \/ (nOrders < MaxOrders /\ \E order \in EngineOrders : SubmitOrder(order))
    \/ ProcessMatches
    \/ \E inv \in invocations : SettleStep(inv)

Spec == Init /\ [][Next]_vars

(* ======================= properties of the engine ===================== *)
Range(s) == {s[i] : i \in 1..Len(s)}

IsPrefix(s, t) == Len(s) <= Len(t) /\ SubSeq(t, 1, Len(s)) = s

\* how often order id occurs on the books
BookCount(id) ==
    Cardinality({<<a, i>> \in Assets \X (1..MaxOrders + 1) :
                    i <= Len(buyOrders[a]) /\ buyOrders[a][i].id = id})
  + Cardinality({<<a, i>> \in Assets \X (1..MaxOrders + 1) :
                    i <= Len(sellOrders[a]) /\ sellOrders[a][i].id = id})

\* how often order id occurs in the emitted matches, on either side
MatchCount(id) ==
    Cardinality({k \in 1..Len(completedMatches) :
                    completedMatches[k].buyOrder.id = id})
  + Cardinality({k \in 1..Len(completedMatches) :
                    completedMatches[k].sellOrder.id = id})

\* C1: every emitted match has equal quantities, buy.price >= sell.price,
\* executionPrice = floor((buy.price + sell.price) / 2) and
\* executionQuantity = buy.quantity.
C1_MatchingExactness ==
    \A k \in 1..Len(completedMatches) :
        LET m == completedMatches[k] IN
        /\ m.buyOrder.quantity = m.sellOrder.quantity
        /\ m.buyOrder.price >= m.sellOrder.price
        /\ m.executionPrice = (m.buyOrder.price + m.sellOrder.price) \div 2
        /\ m.executionQuantity = m.buyOrder.quantity

\* C2: no submitted order appears in more than one emitted match, whether
\* as buyOrder or as sellOrder.
C2_NoDoubleSpend ==
    \A id \in 1..nOrders : MatchCount(id) <= 1

C2_Witness ==
    /\ Len(completedMatches) = 2
    /\ completedMatches[1].buyOrder.assetAddress
         = completedMatches[2].buyOrder.assetAddress

\* a sell of the pass that the buy of its k-th match could have taken:
\* it crosses, has the buy's quantity and no earlier match of the pass
\* had claimed it
EligibleFor(pass, k, x) ==
    LET b == pass.matches[k].buyOrder IN
    /\ x.price <= b.price
    /\ x.quantity = b.quantity
    /\ \A e \in 1..(k - 1) : pass.matches[e].sellOrder.id # x.id

\* C3: in every matching pass the sell paired with a buy has, among the
\* sells eligible for that buy, minimum price, and among those of equal
\* price minimum timestamp.
C3_MatchingPriority ==
    \A k \in 1..Len(lastPass.matches) :
        LET s == lastPass.matches[k].sellOrder IN
        /\ s \in Range(lastPass.sells)
        /\ EligibleFor(lastPass, k, s)
        /\ \A x \in Range(lastPass.sells) :
              EligibleFor(lastPass, k, x) =>
                 /\ s.price <= x.price
                 /\ s.price = x.price => s.timestamp <= x.timestamp

\* Sell(q, 2) at t = 0 and Sell(q, 1) at t = 1 rest, Buy(q, 2) arrives and
\* is matched with the later, cheaper sell
C3_Witness ==
    /\ Len(lastPass.sells) = 2
    /\ Len(lastPass.matches) = 1
    /\ \E i, j \in 1..2 :
          /\ lastPass.sells[i].price = 2 /\ lastPass.sells[i].timestamp = 0
          /\ lastPass.sells[j].price = 1 /\ lastPass.sells[j].timestamp = 1
          /\ lastPass.sells[i].quantity = lastPass.sells[j].quantity
          /\ lastPass.matches[1].buyOrder.quantity = lastPass.sells[i].quantity
          /\ lastPass.matches[1].buyOrder.price = 2
          /\ lastPass.matches[1].sellOrder = lastPass.sells[j]

\* C4: after every submitOrder call each order ever submitted is in exactly
\* one place: once on the book of its asset and side, or in exactly one
\* emitted match; a Buy then a Sell of equal quantity and price on one
\* asset leave both books of that asset empty and one match.
C4_ExactlyOnePlace ==
    /\ \A id \in 1..nOrders : BookCount(id) + MatchCount(id) = 1
    /\ \A a \in Assets :
          /\ \A i \in 1..Len(buyOrders[a]) :
                buyOrders[a][i].assetAddress = a /\ buyOrders[a][i].side = Buy
          /\ \A i \in 1..Len(sellOrders[a]) :
                sellOrders[a][i].assetAddress = a /\ sellOrders[a][i].side = Sell
    /\ ( /\ Len(lastPass.buys) = 1 /\ Len(lastPass.sells) = 1
         /\ lastPass.buys[1].quantity = lastPass.sells[1].quantity
         /\ lastPass.buys[1].price = lastPass.sells[1].price )
       => /\ buyOrders[lastPass.asset] = <<>>
          /\ sellOrders[lastPass.asset] = <<>>
          /\ Len(lastPass.matches) = 1

\* a Buy then a Sell of equal quantity and price were just matched while
\* an unmatched order rests on the other asset
C4_Witness ==
    /\ Len(lastPass.buys) = 1 /\ Len(lastPass.sells) = 1
    /\ lastPass.buys[1].id < lastPass.sells[1].id
    /\ lastPass.buys[1].price = lastPass.sells[1].price
    /\ Len(lastPass.matches) = 1
    /\ \E a \in Assets : a # lastPass.asset /\ Len(buyOrders[a]) = 1

\* the place of the match with this matchId in the completed-matches log
LogIndex(matchId) ==
    CHOOSE k \in 0..Len(completedMatches) :
        \/ (k > 0 /\ completedMatches[k].matchId = matchId)
        \/ (k = 0 /\ \A j \in 1..Len(completedMatches) :
                        completedMatches[j].matchId # matchId)

\* the matches named by these ids were appended in this order
InAppendOrder(ids) ==
    /\ \A i \in 1..Len(ids) : LogIndex(ids[i]) > 0
    /\ \A i, j \in 1..Len(ids) : i < j => LogIndex(ids[i]) < LogIndex(ids[j])

ResultIds(results) == [i \in 1..Len(results) |-> results[i].matchId]

C6_State ==
    /\ Len(matchQueue) <= Len(completedMatches)
    /\ matchQueue = SubSeq(completedMatches,
                           Len(completedMatches) - Len(matchQueue) + 1,
                           Len(completedMatches))
    /\ \A inv \in invocations :
          /\ inv.cur \in Range(completedMatches)
          /\ InAppendOrder(Append(ResultIds(inv.results), inv.cur.matchId))
    /\ InAppendOrder(ResultIds(lastReturned))

C6_Step ==
    /\ IsPrefix(completedMatches, completedMatches')
    /\ LET new == SubSeq(completedMatches', Len(completedMatches) + 1,
                         Len(completedMatches'))
       IN  new # <<>> => matchQueue' = matchQueue \o new
    /\ Len(matchQueue') < Len(matchQueue) =>
          /\ matchQueue' = Tail(matchQueue)
          /\ \E inv \in invocations' : inv.cur = Head(matchQueue)

\* C6: every emitted match is appended to both the match queue and the
\* completed-matches log; the log never shrinks and holds every match that
\* is or was in the queue; processMatches removes matches in the order they
\* were appended and returns their results in that order.
C6_QueueAndLog == [](C6_State) /\ [][C6_Step]_vars

\* one processMatches call has returned the results of two matches
C6_Witness ==
    /\ Len(lastReturned) = 2
    /\ matchQueue = <<>>
    /\ Len(completedMatches) = 2

\* C7: for every match handed to settleMatch, executionPrice = buy.price =
\* sell.price and executionQuantity = buy.quantity = sell.quantity.
C7_MatcherGuaranteesEqualities ==
    \A inv \in invocations :
        /\ inv.cur.executionPrice = inv.cur.buyOrder.price
        /\ inv.cur.executionPrice = inv.cur.sellOrder.price
        /\ inv.cur.executionQuantity = inv.cur.buyOrder.quantity
        /\ inv.cur.executionQuantity = inv.cur.sellOrder.quantity

(* ------------------ settlement runs (SpecSettle) ---------------------- *)
\* orders submitted in one settlement run
MaxSettleOrders == 4

\* the registries of the settlement runs: two participants, then three
WhitelistLists == {<<11, 12>>, <<11, 12, 13>>}

\* buildWhitelistTree over those registries, tabulated once
builtWhitelist == [ps \in WhitelistLists |-> buildWhitelistTree(ps)]

\* initializeWhitelist resumes after buildWhitelistTree: root and proofs
\* are assigned in the same turn
InitializeWhitelist(participantIdHashes) ==
    /\ LET built == builtWhitelist[participantIdHashes]
       IN  /\ whitelistRoot' = <<built.root>>
           /\ whitelistProofs' = built.proofs
    /\ UNCHANGED engineVars
    /\ UNCHANGED workerVars
    /\ UNCHANGED lastResponse
    /\ UNCHANGED <<treeVars, auxVars>>

\* honest orders on one asset and one quantity; index 2 is on the second
\* list only
SettleOrders ==
    {newOrder("A1", side, 1, p, s, n, TRUE, w, now) :
        side \in Sides, p \in {1, 2}, s \in Secrets, n \in Nonces, w \in {0, 2}}

NextSettle ==
    \/ \E ps \in WhitelistLists : InitializeWhitelist(ps)
    \/ (nOrders < MaxSettleOrders /\ \E order \in SettleOrders : SubmitOrder(order))
    \/ ProcessMatches
    \/ \E inv \in invocations : SettleStep(inv)

SpecSettle == Init /\ [][NextSettle]_vars

\* the commitment is the Poseidon hash of the order's own fields
Honest(o) ==
    o.commitment = OrderCommitment(hashAssetAddress(o.assetAddress), o.side,
                                   o.quantity, o.price, o.nonce, o.secret)

MatchOfResult(r) == completedMatches[LogIndex(r.matchId)]

\* every settlement result the engine has produced and not yet dropped
KnownResults ==
    Range(lastReturned) \cup Range(settlementResults)
      \cup UNION {Range(inv.results) : inv \in invocations}

\* the two commitment constraints on the witness settleMatch builds for
\* the match an invocation is suspended on
WitnessCommitments(inv) ==
    LET input == tradeInput(inv.cur, inv.captured[1], inv.captured[2],
                            whitelistRoot[1])
    IN  [buy |-> buyCommitmentHolds(input), sell |-> sellCommitmentHolds(input)]

\* C8: for a match whose orders carry honest commitments, equal prices
\* satisfy both commitment constraints of the circuit on the witness
\* settleMatch builds; with different prices one of them fails and
\* settleMatch returns success = false.
C8_CommitmentConstraints ==
    /\ \A inv \in invocations :
          ( /\ inv.captured # <<>> /\ whitelistRoot # <<>>
            /\ Honest(inv.cur.buyOrder) /\ Honest(inv.cur.sellOrder) )
          => LET c == WitnessCommitments(inv) IN
             /\ inv.cur.buyOrder.price = inv.cur.sellOrder.price
                   => (c.buy /\ c.sell)
             /\ inv.cur.buyOrder.price # inv.cur.sellOrder.price
                   => ~(c.buy /\ c.sell)
    /\ \A r \in KnownResults :
          LET m == MatchOfResult(r) IN
          ( /\ Honest(m.buyOrder) /\ Honest(m.sellOrder)
            /\ m.buyOrder.price # m.sellOrder.price )
          => r.success = FALSE

\* one call settled an equal-price match (the proof was generated) and a
\* crossing match (the buy commitment check of the circuit failed)
C8_Witness ==
    /\ Len(lastReturned) = 2
    /\ \E i, j \in 1..2 :
          /\ lastReturned[i].success = TRUE
          /\ MatchOfResult(lastReturned[i]).buyOrder.price
                = MatchOfResult(lastReturned[i]).sellOrder.price
          /\ lastReturned[j].success = FALSE
          /\ lastReturned[j].error = "line: 77"
          /\ MatchOfResult(lastReturned[j]).buyOrder.price
                # MatchOfResult(lastReturned[j]).sellOrder.price

(* ------------------------ HTTP routes (SpecRoute) --------------------- *)
\* orders accepted by POST /submit in one behaviour
MaxRouteOrders == 4


\* getWhitelistIndex: the local mapping first, then providedIndex || 0
getWhitelistIndex(trader, providedIndex) ==
    IF trader = "GAWA" THEN 0
    ELSE IF trader = "GCI2" THEN 1
    ELSE providedIndex

\* getOrderBookState(assetAddress) on the engine state `engine`
getOrderBookState(engine, assetAddress) ==
    [buys |-> Len(engine.buyOrders[assetAddress]),
     sells |-> Len(engine.sellOrders[assetAddress])]

\* the reason is attached whenever the opposite side is non-empty
noMatchReasonMutant(side, pendingCount, orderBookState) ==
    LET isNewOrderBuy == side = 0
    IN  \/ (isNewOrderBuy /\ orderBookState.sells > 0)
        \/ (~isNewOrderBuy /\ orderBookState.buys > 0)

\* whether POST /submit sets noMatchReason to a string (TRUE) or leaves
\* it null (FALSE)
noMatchReason(side, pendingCount, orderBookState) ==
    LET isNewOrderBuy == side = 0
    IN  /\ pendingCount = 0
        /\ \/ (isNewOrderBuy /\ orderBookState.sells > 0)
           \/ (~isNewOrderBuy /\ orderBookState.buys > 0)

\* a request that is answered without touching the engine
Rejected(status) ==
    /\ lastResponse' = [NoResponse EXCEPT !.status = status]
    /\ UNCHANGED engineVars
    /\ UNCHANGED workerVars
    /\ UNCHANGED whitelistVars
    /\ UNCHANGED <<treeVars, auxVars>>

\* the default lifetime of an order, in ms
DefaultLifetime == 3600000

\* expiry || Date.now() + 3600000: an expiry that is missing or 0 gives
\* the default
expiryOf(expiry, t) == IF expiry = 0 THEN t + DefaultLifetime ELSE expiry

\* the order with the expiry field the route sets
withExpiry(order, expiry) ==
    [id |-> order.id, commitment |-> order.commitment,
     assetAddress |-> order.assetAddress, side |-> order.side,
     quantity |-> order.quantity, price |-> order.price,
     secret |-> order.secret, nonce |-> order.nonce,
     timestamp |-> order.timestamp, expiry |-> expiry,
     whitelistIndex |-> order.whitelistIndex]

\* POST /submit.  body.present: every required field is there;
\* body.numeric: BigInt() parses quantity, price, secret and nonce
RouteSubmit(body, t) ==
    IF ~body.present THEN Rejected(400)
    ELSE IF ~body.numeric THEN Rejected(500)
    ELSE LET order == withExpiry(
                          newOrder(body.assetAddress, body.side, body.quantity,
                                   body.price, body.secret, body.nonce, TRUE,
                                   getWhitelistIndex(body.trader,
                                                     body.whitelistIndex), t),
                          expiryOf(body.expiry, t))
             engine == submitOrder(order)
             pendingCount == Len(engine.matchQueue)
             orderBookState == getOrderBookState(engine, body.assetAddress)
         IN  /\ nOrders' = nOrders + 1
             /\ now' = t
             /\ buyOrders' = engine.buyOrders
             /\ sellOrders' = engine.sellOrders
             /\ completedMatches' = engine.completedMatches
             /\ lastPass' = engine.pass
             /\ IF pendingCount > 0
                THEN processMatches(engine.matchQueue, "submit")
                ELSE /\ matchQueue' = engine.matchQueue
                     /\ UNCHANGED <<invocations, lastReturned>>
             /\ lastResponse' =
                   [status |-> 200,
                    pendingMatches |-> pendingCount,
                    matched |-> pendingCount > 0,
                    noMatchReason |-> noMatchReason(body.side, pendingCount,
                                                    orderBookState),
                    buyOrders |-> orderBookState.buys,
                    sellOrders |-> orderBookState.sells]
             /\ UNCHANGED <<settlementResults, queued>>
             /\ UNCHANGED whitelistVars
             /\ UNCHANGED <<treeVars, auxVars>>

\* POST /process: nothing to do on an empty queue, else processMatches
RouteProcess ==
    /\ IF matchQueue = <<>>
       THEN UNCHANGED <<matchQueue, invocations, lastReturned>>
       ELSE processMatches(matchQueue, "process")
    /\ UNCHANGED <<buyOrders, sellOrders, completedMatches, now, nOrders,
                   lastPass, lastResponse, settlementResults, queued>>
    /\ UNCHANGED whitelistVars
    /\ UNCHANGED <<treeVars, auxVars>>

\* what a well-formed request may carry: both sides at both quantities,
\* a second price for quantity 1, a side that is neither Buy nor Sell from
\* a trader outside the local mapping, and one shape on the second asset
RouteShapes ==
    {<<"A1", sd, q, p, "GAWA", 0>> :
        sd \in Sides, q \in Quantities, p \in {1}}
    \cup {<<"A1", sd, 1, 2, "GAWA", 0>> : sd \in Sides}
    \cup {<<"A1", 2, 1, 1, "GXYZ", 2>>, <<"A2", Buy, 1, 2, "GCI2", 0>>}

\* request bodies: the well-formed ones and the two kinds of bad request
SubmitBodies ==
    {[present |-> TRUE, numeric |-> TRUE, assetAddress |-> sh[1],
      side |-> sh[2], quantity |-> sh[3], price |-> sh[4], secret |-> 5,
      nonce |-> 7, trader |-> sh[5], whitelistIndex |-> sh[6],
      expiry |-> 0] :
        sh \in RouteShapes}
    \cup
    {[present |-> pr, numeric |-> FALSE, assetAddress |-> "A1", side |-> Sell,
      quantity |-> 1, price |-> 1, secret |-> 5, nonce |-> 7,
      trader |-> "GAWA", whitelistIndex |-> 0, expiry |-> 0] :
        pr \in BOOLEAN}

\* the routes alone: nothing in them initialises the whitelist
NextRoute ==
    \/ \E body \in SubmitBodies :
          /\ (body.present /\ body.numeric) => nOrders < MaxRouteOrders
          /\ \E t \in Clock : RouteSubmit(body, t)
    \/ RouteProcess
    \/ \E inv \in invocations : SettleStep(inv)

SpecRoute == Init /\ [][NextRoute]_vars

\* the order the last accepted request submitted went to the buy book
LastWasBuy ==
    \E i \in 1..Len(lastPass.buys) : lastPass.buys[i].id = nOrders

\* the side of the book opposite to that order, as the pass found it
OppositeSide == IF LastWasBuy THEN lastPass.sells ELSE lastPass.buys

\* C5: an order submitted through the submit route that produces no match
\* while the opposite side of its asset's book is non-empty leaves no new
\* match, stays on the book with the others, and is answered with a
\* non-null noMatchReason; with an empty opposite side, or with a match,
\* noMatchReason is null.
C5_NoMatchReason ==
    lastResponse.status = 200 =>
        LET a == lastPass.asset
            unmatched == lastPass.matches = <<>> /\ OppositeSide # <<>>
        IN  /\ lastResponse.noMatchReason <=> unmatched
            /\ lastResponse.matched <=> lastPass.matches # <<>>
            /\ unmatched =>
                  /\ Range(buyOrders[a]) = Range(lastPass.buys)
                  /\ Range(sellOrders[a]) = Range(lastPass.sells)
                  /\ Len(buyOrders[a]) = Len(lastPass.buys)
                  /\ Len(sellOrders[a]) = Len(lastPass.sells)

\* Buy(1, p) rests, Sell(2, p) arrives: no match, both on the book, and
\* the response names the reason
C5_Witness ==
    /\ lastResponse.status = 200
    /\ lastResponse.noMatchReason
    /\ completedMatches = <<>>
    /\ Len(buyOrders["A1"]) = 1
    /\ Len(sellOrders["A1"]) = 1
    /\ buyOrders["A1"][1].id = 1
    /\ sellOrders["A1"][1].id = 2
    /\ buyOrders["A1"][1].quantity # sellOrders["A1"][1].quantity
    /\ buyOrders["A1"][1].price = sellOrders["A1"][1].price

(* ------------------- buildWhitelistTree (SpecTree) -------------------- *)
\* raw participant identifiers; a list may repeat one
ParticipantIds == {11, 12, 13}

RECURSIVE ListsOf(_)
ListsOf(n) ==
    IF n = 0 THEN {<<>>}
    ELSE ListsOf(n - 1) \cup
         {Append(l, p) : l \in {x \in ListsOf(n - 1) : Len(x) = n - 1},
                         p \in ParticipantIds}

\* every participant list of at most MaxParticipants entries
ParticipantLists == ListsOf(MaxParticipants)

InitTree ==
    /\ InitServer
    /\ InitAux
    /\ treeParticipants \in ParticipantLists
    /\ tree = NoTree

\* await buildWhitelistTree(participants)
BuildWhitelistTree ==
    /\ tree = NoTree
    /\ tree' = buildWhitelistTree(treeParticipants)
    /\ UNCHANGED treeParticipants
    /\ UNCHANGED auxVars
    /\ UNCHANGED engineVars
    /\ UNCHANGED workerVars
    /\ UNCHANGED whitelistVars
    /\ UNCHANGED lastResponse

NextTree == BuildWhitelistTree

SpecTree == InitTree /\ [][NextTree]_vars

\* the tree has been built for treeParticipants
Built == tree # NoTree

\* C9: for every participant list and every index i in it, the proof
\* buildWhitelistTree emits for i, folded from the leaf upward as the
\* circuit's MerkleTreeProof does (index 0: hash(current, sibling); index
\* 1: hash(sibling, current)), yields exactly the emitted root.
C9_ProofsVerify ==
    Built =>
        /\ DOMAIN tree.proofs = 0..(Len(treeParticipants) - 1)
        /\ \A i \in 0..(Len(treeParticipants) - 1) :
              LET p == tree.proofs[i] IN
              /\ p.idHash = Poseidon(<<Fe(treeParticipants[i + 1])>>)
              /\ merkleRoot(p.idHash, p.pathElements, p.pathIndices) = tree.root

\* five participants: the last one sits left, left, right in a dense tree
\* of depth 3
C9_Witness ==
    /\ Built
    /\ Len(treeParticipants) = 5
    /\ SubSeq(tree.proofs[4].pathIndices, 1, 3) = <<0, 0, 1>>
    /\ SubSeq(tree.proofs[3].pathIndices, 1, 3) = <<1, 1, 0>>

\* the dense depth: the least d with 2^d >= max(n, 2)
DenseDepth(n) ==
    CHOOSE d \in 1..TREE_DEPTH :
        /\ Pow2(d) >= n
        /\ d = 1 \/ Pow2(d - 1) < n

\* C10: every emitted inclusion proof has exactly TREE_DEPTH path elements
\* and TREE_DEPTH path indices, every index is 0 or 1, and from the dense
\* depth d up to TREE_DEPTH - 1 the path element is the zero-ladder value
\* of its level and the index is 0.
C10_ProofShape ==
    Built =>
        \A i \in 0..(Len(treeParticipants) - 1) :
            LET p == tree.proofs[i]
                d == DenseDepth(Len(treeParticipants))
            IN  /\ Len(p.pathElements) = TREE_DEPTH
                /\ Len(p.pathIndices) = TREE_DEPTH
                /\ \A k \in 1..TREE_DEPTH : p.pathIndices[k] \in {0, 1}
                /\ \A k \in d..(TREE_DEPTH - 1) :
                      /\ p.pathElements[k + 1] = zeros[k + 1]
                      /\ p.pathIndices[k + 1] = 0

\* three participants: dense depth 2, so the third element of a proof is
\* the ladder value of level 2 and differs from the sibling below it
C10_Witness ==
    /\ Built
    /\ Len(treeParticipants) = 3
    /\ tree.proofs[2].pathElements[3] = zeros[3]
    /\ tree.proofs[2].pathElements[2] # zeros[2]
    /\ tree.proofs[2].pathIndices[2] = 1

(* ------------------------- whitelist snapshots ------------------------ *)
\* the proofs a suspended settleMatch holds and the root it is about to
\* read both belong to the snapshot built over ps
FromSnapshot(inv, ps) ==
    /\ whitelistRoot = <<builtWhitelist[ps].root>>
    /\ inv.cur.buyOrder.whitelistIndex \in DOMAIN builtWhitelist[ps].proofs
    /\ inv.cur.sellOrder.whitelistIndex \in DOMAIN builtWhitelist[ps].proofs
    /\ inv.captured[1] = builtWhitelist[ps].proofs[inv.cur.buyOrder.whitelistIndex]
    /\ inv.captured[2] = builtWhitelist[ps].proofs[inv.cur.sellOrder.whitelistIndex]

\* C11: for every settleMatch execution, even one interleaved with an
\* initializeWhitelist call, the buyer proof, the seller proof and the
\* whitelistRoot handed to the prover come from one whitelist snapshot.
C11_WhitelistAtomicForReaders ==
    \A inv \in invocations :
        inv.captured # <<>> => \E ps \in WhitelistLists : FromSnapshot(inv, ps)

(* ---------------------- rebuilding the whitelist ----------------------- *)
\* SpecRebuild: buildWhitelistTree called again and again, directly and
\* through initializeWhitelist. Every call allocates its own leaves,
\* levels and proofs Map; snapshots is the heap of the objects the calls
\* returned, oldest first, each still referenced by whoever received it.
MaxBuilds == 4

RebuildLists == {<<11, 12, 13>>, <<11, 12, 13, 14>>, <<12, 11>>}

builtRebuild == [ps \in RebuildLists |-> buildWhitelistTree(ps)]

\* every call of buildWhitelistTree returns the one object all callers share
allocateShared(heap, object) == [k \in 1..(Len(heap) + 1) |-> object]

\* `new Map()` and `return { root, proofs }`: a fresh object per call
allocate(heap, object) == Append(heap, object)

\* a caller other than the engine: await buildWhitelistTree(participants)
CallBuildWhitelistTree(ps) ==
    /\ snapshots' = allocate(snapshots, builtRebuild[ps])
    /\ UNCHANGED engineVars
    /\ UNCHANGED workerVars
    /\ UNCHANGED whitelistVars
    /\ UNCHANGED lastResponse
    /\ UNCHANGED <<treeVars, proverVars, wsVars, pipelineVars>>

\* initializeWhitelist: the engine's fields are pointed at the new object
RebuildWhitelist(participantIdHashes) ==
    /\ snapshots' = allocate(snapshots, builtRebuild[participantIdHashes])
    /\ LET built == snapshots'[Len(snapshots')]
       IN  /\ whitelistRoot' = <<built.root>>
           /\ whitelistProofs' = built.proofs
    /\ UNCHANGED engineVars
    /\ UNCHANGED workerVars
    /\ UNCHANGED lastResponse
    /\ UNCHANGED <<treeVars, proverVars, wsVars, pipelineVars>>

NextRebuild ==
    \/ (Len(snapshots) < MaxBuilds /\ \E ps \in RebuildLists : CallBuildWhitelistTree(ps))
    \/ (Len(snapshots) < MaxBuilds /\ \E ps \in RebuildLists : RebuildWhitelist(ps))

SpecRebuild == Init /\ [][NextRebuild]_vars

\* every proof of a returned object folds to that object's root
SelfConsistent(object) ==
    \A i \in DOMAIN object.proofs :
        LET p == object.proofs[i]
        IN  merkleRoot(p.idHash, p.pathElements, p.pathIndices) = object.root

C12_State == \A k \in 1..Len(snapshots) : SelfConsistent(snapshots[k])

C12_Step ==
    \A k \in 1..Len(snapshots) :
        /\ k \in 1..Len(snapshots')
        /\ snapshots'[k] = snapshots[k]

\* C12: a root and proof set returned by one buildWhitelistTree call are
\* not changed by any later buildWhitelistTree or initializeWhitelist
\* call: every object handed out earlier is the same after the call, and
\* each of its proofs still folds to its own root (so a proof from the
\* tree over three IDs verifies against that tree's root after a rebuild
\* over four IDs).
C12_SnapshotsImmutable == [](C12_State) /\ [][C12_Step]_vars

\* the tree over three IDs was handed out, then the engine rebuilt over
\* four IDs; the first object is still the three-ID tree
C12_Witness ==
    /\ Len(snapshots) >= 2
    /\ snapshots[1] = builtRebuild[<<11, 12, 13>>]
    /\ snapshots[2] = builtRebuild[<<11, 12, 13, 14>>]
    /\ whitelistRoot = <<snapshots[2].root>>
    /\ snapshots[1].root # snapshots[2].root
    /\ SelfConsistent(snapshots[1])

(* ----------------------- Soroban proof encoding ----------------------- *)
\* A hex string is the sequence of its digits' values, a Buffer the
\* sequence of its bytes.

\* BigInt.prototype.toString(16) of a non-negative value
RECURSIVE toString16(_)
toString16(n) == IF n < 16 THEN <<n>> ELSE Append(toString16(n \div 16), n % 16)

\* String.prototype.padStart with a one-character filler
padStart(str, targetLength, padChar) ==
    IF Len(str) >= targetLength THEN str
    ELSE [k \in 1..(targetLength - Len(str)) |-> padChar] \o str

toBytes32(value) == padStart(toString16(value), 64, 0)

g1ToBytes(point) == toBytes32(point[1]) \o toBytes32(point[2])

\* x0 || x1 || y0 || y1, the order snarkjs lists the coordinates in
g2ToBytesAsListed(point) ==
    toBytes32(point[1][1]) \o toBytes32(point[1][2]) \o
    toBytes32(point[2][1]) \o toBytes32(point[2][2])

\* point is [[x0, x1], [y0, y1]]; the bytes are x1 || x0 || y1 || y0
g2ToBytes(point) ==
    toBytes32(point[1][2]) \o toBytes32(point[1][1]) \o
    toBytes32(point[2][2]) \o toBytes32(point[2][1])

\* Array.prototype.join("") of strs[i..]
RECURSIVE joinFrom(_, _)
joinFrom(strs, i) == IF i > Len(strs) THEN <<>> ELSE strs[i] \o joinFrom(strs, i + 1)

\* Buffer.from(hex, "hex") of a string of hex digits: two digits a byte,
\* an odd last digit dropped
BufferFromHex(hex) == [k \in 1..(Len(hex) \div 2) |-> 16 * hex[2 * k - 1] + hex[2 * k]]

convertProofForSoroban(proof, publicSignals) ==
    LET proofHex == g1ToBytes(proof.pi_a) \o g2ToBytes(proof.pi_b) \o g1ToBytes(proof.pi_c)
        numSignals == Len(publicSignals)
        lengthHex == padStart(toString16(numSignals), 8, 0)
        signalsHex == lengthHex \o
                      joinFrom([k \in 1..numSignals |-> toBytes32(publicSignals[k])], 1)
    IN  [proofBytes |-> BufferFromHex(proofHex),
         signalsBytes |-> BufferFromHex(signalsHex)]

\* generateSettlementProof from the point fullProve has returned
settlementProofOf(proof, publicSignals) ==
    LET converted == convertProofForSoroban(proof, publicSignals)
    IN  [proof |-> proof,
         publicSignals |-> publicSignals,
         nullifierHash |-> publicSignals[Len(publicSignals)],
         proofBytes |-> converted.proofBytes,
         signalsBytes |-> converted.signalsBytes]

(* --------------------------- prover library --------------------------- *)
\* SpecProver: one call of a function the prover library exports. Init
\* draws the function and its arguments; the action is the call. A decimal
\* string is represented by the number it denotes.

\* BigInt("0x" + randomBytes(32)): 256 bits, so a draw can exceed the field
\* prime, and so can the sum of two draws below it
RandomDraws == {5, 6000, 10000, 10012}

NullifierCalls ==
    {[op |-> "computeNullifier", buyCommitment |-> b, sellCommitment |-> 4,
      quantity |-> q, buyerSecret |-> s1, sellerSecret |-> s2] :
        b \in {3, 10010}, q \in {1, 2}, s1 \in RandomDraws, s2 \in RandomDraws}

CommitmentCalls ==
    {[op |-> "generateOrderCommitment",
      params |-> [assetHash |-> a, side |-> sd, quantity |-> q, price |-> pr]] :
        a \in {hashAssetAddress("A1"), hashAssetAddress("A2")},
        sd \in {Buy, Sell}, q \in {1, 2}, pr \in {1, 2}}

\* generateOrderCommitment with the two values randomBytes produced
generateOrderCommitment(params, secret, nonce) ==
    [commitment |-> OrderCommitment(params.assetHash, params.side,
                                    params.quantity, params.price, nonce, secret),
     secret |-> secret,
     nonce |-> nonce]

\* coordinates and signals: 0, one byte, two bytes, four bytes
Coordinates == {0, 7, 258, 16777221}

\* snarkjs proofs: projective points, the third entry is never encoded
Proofs ==
    {[pi_a |-> <<a, a + 1, 1>>,
      pi_b |-> <<<<b, b + 2>>, <<b + 3, b + 5>>, <<1, 0>>>>,
      pi_c |-> <<c, c + 4, 1>>] : a \in Coordinates, b \in Coordinates, c \in {7, 258}}

MaxSignals == 3

SignalLists == UNION {[1..n -> {0, 9, 70000}] : n \in 1..MaxSignals}

ConvertCalls ==
    {[op |-> "generateSettlementProof", proof |-> pr, publicSignals |-> ps] :
        pr \in Proofs, ps \in SignalLists}

ProverFrame ==
    /\ UNCHANGED call
    /\ UNCHANGED engineVars
    /\ UNCHANGED workerVars
    /\ UNCHANGED whitelistVars
    /\ UNCHANGED lastResponse
    /\ UNCHANGED <<treeVars, heapVars, wsVars, pipelineVars>>

ComputeNullifier ==
    /\ call.op = "computeNullifier"
    /\ returned = NoReturn
    /\ returned' = [op |-> call.op,
                    value |-> computeNullifier(call.buyCommitment, call.sellCommitment,
                                               call.quantity, call.buyerSecret,
                                               call.sellerSecret)]
    /\ ProverFrame

GenerateOrderCommitment ==
    /\ call.op = "generateOrderCommitment"
    /\ returned = NoReturn
    /\ \E secret \in RandomDraws, nonce \in RandomDraws :
          returned' = [op |-> call.op,
                       value |-> generateOrderCommitment(call.params, secret, nonce)]
    /\ ProverFrame

\* fullProve has returned proof and publicSignals
FinishSettlementProof ==
    /\ call.op = "generateSettlementProof"
    /\ returned = NoReturn
    /\ returned' = [op |-> call.op,
                    value |-> settlementProofOf(call.proof, call.publicSignals)]
    /\ ProverFrame

ProverCalls == NullifierCalls \cup CommitmentCalls \cup ConvertCalls

InitProver ==
    /\ InitServer
    /\ InitHeap
    /\ InitWs
    /\ InitPipeline
    /\ treeParticipants = <<>>
    /\ tree = NoTree
    /\ call \in ProverCalls
    /\ returned = NoReturn

NextProver ==
    \/ ComputeNullifier
    \/ GenerateOrderCommitment
    \/ FinishSettlementProof

SpecProver == InitProver /\ [][NextProver]_vars

ReturnedFrom(op) == returned # NoReturn /\ returned.op = op

\* C13: for all commitments, quantities and secrets s1, s2, the value
\* computeNullifier(buy, sell, q, s1, s2) returns is the value of
\* computeNullifier(buy, sell, q, s2, s1).
C13_NullifierSymmetry ==
    ReturnedFrom("computeNullifier") =>
        returned.value = computeNullifier(call.buyCommitment, call.sellCommitment,
                                          call.quantity, call.sellerSecret,
                                          call.buyerSecret)

\* two different secrets, the larger one first
C13_Witness ==
    /\ ReturnedFrom("computeNullifier")
    /\ call.buyerSecret > call.sellerSecret

\* the private and public inputs the circuit sees for the call's match
NullifierInput ==
    [buyCommitment |-> call.buyCommitment, sellCommitment |-> call.sellCommitment,
     matchedQuantity |-> call.quantity, buyOrderSecret |-> call.buyerSecret,
     sellOrderSecret |-> call.sellerSecret]

\* C14: the value computeNullifier returns is the nullifier the settlement
\* circuit outputs for the same match, Poseidon over (buyCommitment,
\* sellCommitment, quantity, buyerSecret + sellerSecret) with the sum
\* taken modulo the field prime, also when the integer sum of the two
\* secrets exceeds the prime.
C14_NullifierMatchesCircuit ==
    ReturnedFrom("computeNullifier") =>
        /\ returned.value = circuitNullifier(NullifierInput)
        /\ returned.value =
              Poseidon(<<call.buyCommitment % FieldPrime,
                         call.sellCommitment % FieldPrime,
                         call.quantity % FieldPrime,
                         (call.buyerSecret + call.sellerSecret) % FieldPrime>>)

\* both secrets below the prime, their integer sum above it
C14_Witness ==
    /\ ReturnedFrom("computeNullifier")
    /\ call.buyerSecret < FieldPrime
    /\ call.sellerSecret < FieldPrime
    /\ call.buyerSecret + call.sellerSecret > FieldPrime

\* what the circuit is given when the order is matched in full at its price
CommitmentInput ==
    [assetHash |-> call.params.assetHash,
     matchedQuantity |-> call.params.quantity,
     executionPrice |-> call.params.price,
     buyOrderNonce |-> returned.value.nonce,
     buyOrderSecret |-> returned.value.secret,
     buyCommitment |-> returned.value.commitment,
     sellOrderNonce |-> returned.value.nonce,
     sellOrderSecret |-> returned.value.secret,
     sellCommitment |-> returned.value.commitment]

\* C15: the commitment generateOrderCommitment returns, with the nonce and
\* the secret it returns, is Poseidon over (assetHash, side, quantity,
\* price, nonce, secret) in that order: it satisfies the circuit's buy
\* commitment constraint when side is 0 and the sell constraint when side
\* is 1, for matchedQuantity = quantity and executionPrice = price.
C15_CommitmentMatchesCircuit ==
    ReturnedFrom("generateOrderCommitment") =>
        /\ call.params.side = Buy => buyCommitmentHolds(CommitmentInput)
        /\ call.params.side = Sell => sellCommitmentHolds(CommitmentInput)
        /\ returned.value.commitment =
              Poseidon(<<call.params.assetHash % FieldPrime, call.params.side,
                         call.params.quantity, call.params.price,
                         returned.value.nonce % FieldPrime,
                         returned.value.secret % FieldPrime>>)

\* a sell order whose drawn secret is not a reduced field element
C15_Witness ==
    /\ ReturnedFrom("generateOrderCommitment")
    /\ call.params.side = Sell
    /\ returned.value.secret > FieldPrime
    /\ returned.value.nonce # returned.value.secret
    /\ sellCommitmentHolds(CommitmentInput)
    /\ ~buyCommitmentHolds(CommitmentInput)

\* the big-endian number in bytes[first .. first + count - 1], folded onto acc
RECURSIVE ReadBE(_, _, _, _)
ReadBE(bytes, first, count, acc) ==
    IF count = 0 \/ acc < 0 THEN acc
    ELSE ReadBE(bytes, first + 1, count - 1, acc * 256 + bytes[first])

\* the k-th 32-byte word after the first `skip` bytes
Word(bytes, skip, k) == ReadBE(bytes, skip + 32 * (k - 1) + 1, 32, 0)

IsBytes(bytes) == \A k \in 1..Len(bytes) : bytes[k] \in 0..255

\* C16: for a Groth16 proof and n public signals (values below 2^256),
\* proofBytes is exactly 256 bytes, the 32-byte big-endian words A.x, A.y,
\* B.x1, B.x0, B.y1, B.y0, C.x, C.y in that order; signalsBytes is exactly
\* 4 + 32*n bytes, the 4-byte big-endian count n then the signals in
\* order as 32-byte big-endian words; the nullifier reported is the last
\* public signal.
C16_SorobanLayout ==
    ReturnedFrom("generateSettlementProof") =>
        LET proof == call.proof
            n == Len(call.publicSignals)
            proofBytes == returned.value.proofBytes
            signalsBytes == returned.value.signalsBytes
        IN  /\ Len(proofBytes) = 256
            /\ IsBytes(proofBytes)
            /\ Word(proofBytes, 0, 1) = proof.pi_a[1]
            /\ Word(proofBytes, 0, 2) = proof.pi_a[2]
            /\ Word(proofBytes, 0, 3) = proof.pi_b[1][2]
            /\ Word(proofBytes, 0, 4) = proof.pi_b[1][1]
            /\ Word(proofBytes, 0, 5) = proof.pi_b[2][2]
            /\ Word(proofBytes, 0, 6) = proof.pi_b[2][1]
            /\ Word(proofBytes, 0, 7) = proof.pi_c[1]
            /\ Word(proofBytes, 0, 8) = proof.pi_c[2]
            /\ Len(signalsBytes) = 4 + 32 * n
            /\ IsBytes(signalsBytes)
            /\ ReadBE(signalsBytes, 1, 4, 0) = n
            /\ \A k \in 1..n : Word(signalsBytes, 4, k) = call.publicSignals[k]
            /\ returned.value.nullifierHash = call.publicSignals[n]

\* eight different coordinates, one of them four bytes wide, and three
\* signals of which the last differs from the first
C16_Witness ==
    /\ ReturnedFrom("generateSettlementProof")
    /\ call.proof.pi_a[1] = 16777221
    /\ call.proof.pi_b[1][1] = 258
    /\ call.proof.pi_c[1] = 7
    /\ Len(call.publicSignals) = 3
    /\ call.publicSignals[1] = 9
    /\ call.publicSignals[3] = 70000
    /\ returned.value.proofBytes[29] = 1
    /\ returned.value.proofBytes[32] = 5
    /\ Len(returned.value.signalsBytes) = 100

(* ------------------------- event bus fan-out --------------------------- *)
\* SpecBus: sockets connect and subscribe, events are published on the
\* bus, the listeners setupEventBusListeners registered fan them out.
MaxPublished == 1
MaxSubscribed == 3

MatchScoped ==
    {"order:matched", "proof:generating", "proof:generated", "proof:failed",
     "settlement:queued", "settlement:txBuilt", "settlement:confirmed",
     "settlement:failed", "signature:added", "signature:complete"}

EventNames == {"order:submitted"} \cup MatchScoped

\* the matches events are about
Matches == {[matchId |-> "m1", buyerAddress |-> "T1", sellerAddress |-> "T2", asset |-> "A1"]}

\* the payloads of an event (timestamps left out)
Payloads(event) ==
    IF event = "order:submitted"
        THEN {[orderId |-> "o1", trader |-> tr, asset |-> "A1", side |-> "buy"] :
                 tr \in Traders}
    ELSE IF event = "order:matched"
        THEN {[matchId |-> m.matchId, buyerAddress |-> m.buyerAddress,
               sellerAddress |-> m.sellerAddress, asset |-> m.asset,
               executionPrice |-> 2, executionQuantity |-> 1] : m \in Matches}
    ELSE IF event = "signature:added"
        THEN {[matchId |-> m.matchId, signer |-> m.buyerAddress, role |-> "buyer",
               buyerSigned |-> TRUE, sellerSigned |-> FALSE] : m \in Matches}
             \cup
             {[matchId |-> m.matchId, signer |-> m.sellerAddress, role |-> "seller",
               buyerSigned |-> TRUE, sellerSigned |-> TRUE] : m \in Matches}
    ELSE {[matchId |-> m.matchId, buyerAddress |-> m.buyerAddress,
           sellerAddress |-> m.sellerAddress] : m \in Matches}

\* the proof:failed listener without its settlement broadcast
listenerChannelsNoSettlement(event, data) ==
    IF event = "order:submitted"
        THEN <<Channel("orderbook", data.asset), Channel("trader", data.trader)>>
    ELSE IF event = "order:matched"
        THEN <<Channel("orderbook", data.asset),
               Channel("trader", data.buyerAddress),
               Channel("trader", data.sellerAddress),
               Channel("settlement", data.matchId)>>
    ELSE IF event = "signature:added"
        THEN <<Channel("settlement", data.matchId)>>
    ELSE IF event = "proof:failed"
        THEN <<Channel("trader", data.buyerAddress),
               Channel("trader", data.sellerAddress)>>
    ELSE <<Channel("trader", data.buyerAddress),
           Channel("trader", data.sellerAddress),
           Channel("settlement", data.matchId)>>

\* the order:matched listener without the seller's broadcast
listenerChannelsNoSeller(event, data) ==
    IF event = "order:submitted"
        THEN <<Channel("orderbook", data.asset), Channel("trader", data.trader)>>
    ELSE IF event = "order:matched"
        THEN <<Channel("orderbook", data.asset),
               Channel("trader", data.buyerAddress),
               Channel("settlement", data.matchId)>>
    ELSE IF event = "signature:added"
        THEN <<Channel("settlement", data.matchId)>>
    ELSE <<Channel("trader", data.buyerAddress),
           Channel("trader", data.sellerAddress),
           Channel("settlement", data.matchId)>>

\* setupEventBusListeners: the channels the listener of an event
\* broadcasts to, in the order of its broadcastToChannel calls
listenerChannels(event, data) ==
    IF event = "order:submitted"
        THEN <<Channel("orderbook", data.asset), Channel("trader", data.trader)>>
    ELSE IF event = "order:matched"
        THEN <<Channel("orderbook", data.asset),
               Channel("trader", data.buyerAddress),
               Channel("trader", data.sellerAddress),
               Channel("settlement", data.matchId)>>
    ELSE IF event = "signature:added"
        THEN <<Channel("settlement", data.matchId)>>
    ELSE <<Channel("trader", data.buyerAddress),
           Channel("trader", data.sellerAddress),
           Channel("settlement", data.matchId)>>

\* SubscriptionManager, as the gateway section describes it: the server
\* records the (client, channel) pair; unsubscribe is symmetric; a
\* disconnect releases every subscription of the client
subscribe(subs, ws, channel) == [subs EXCEPT ![channel] = @ \cup {ws}]
unsubscribe(subs, ws, channel) == [subs EXCEPT ![channel] = @ \ {ws}]
removeClient(subs, ws) == [ch \in DOMAIN subs |-> subs[ch] \ {ws}]

\* broadcastToChannel: one event message to every subscriber of the channel
broadcastToChannel(subs, channel) ==
    IF channel \in DOMAIN subs THEN {<<channel, ws>> : ws \in subs[channel]} ELSE {}

GatewayFrame ==
    /\ UNCHANGED engineVars
    /\ UNCHANGED workerVars
    /\ UNCHANGED whitelistVars
    /\ UNCHANGED lastResponse
    /\ UNCHANGED <<treeVars, heapVars, proverVars, pipelineVars>>

\* wss.on("connection"): the flag is set, the handlers are registered, the
\* welcome message is sent to the socket
Connect(ws) ==
    /\ readyState[ws] = "CONNECTING"
    /\ readyState' = [readyState EXCEPT ![ws] = "OPEN"]
    /\ isAlive' = [isAlive EXCEPT ![ws] = TRUE]
    /\ UNCHANGED <<subscriptions, lastPublished, unanswered, heartbeatTerminated, ticks>>
    /\ GatewayFrame

\* ws.on("message") with {type: "subscribe", channel}
Subscribe(ws, channel) ==
    /\ readyState[ws] = "OPEN"
    /\ subscriptions' = subscribe(subscriptions, ws, channel)
    /\ UNCHANGED <<readyState, isAlive, lastPublished, unanswered, heartbeatTerminated, ticks>>
    /\ GatewayFrame

\* ws.on("message") with {type: "unsubscribe", channel}
Unsubscribe(ws, channel) ==
    /\ readyState[ws] = "OPEN"
    /\ ws \in subscriptions[channel]
    /\ subscriptions' = unsubscribe(subscriptions, ws, channel)
    /\ UNCHANGED <<readyState, isAlive, lastPublished, unanswered, heartbeatTerminated, ticks>>
    /\ GatewayFrame

\* eventBus.emit(event, data): the listener of the event runs
Publish(event, data) ==
    /\ lastPublished.seq < MaxPublished
    /\ LET channels == listenerChannels(event, data)
       IN  lastPublished' =
              [seq |-> lastPublished.seq + 1, event |-> event, data |-> data,
               channels |-> channels,
               deliveries |-> UNION {broadcastToChannel(subscriptions, channels[k]) :
                                        k \in 1..Len(channels)}]
    /\ UNCHANGED <<readyState, isAlive, subscriptions, unanswered, heartbeatTerminated, ticks>>
    /\ GatewayFrame

Subscribed == {pair \in Channels \X Sockets : pair[2] \in subscriptions[pair[1]]}

NextBus ==
    \/ \E ws \in Sockets : Connect(ws)
    \/ (Cardinality(Subscribed) < MaxSubscribed /\ \E ws \in Sockets, ch \in Channels : Subscribe(ws, ch))
    \/ \E ws \in Sockets, ch \in Channels : Unsubscribe(ws, ch)
    \/ \E event \in EventNames : \E data \in Payloads(event) : Publish(event, data)

SpecBus == Init /\ [][NextBus]_vars

Published(event) == lastPublished.seq > 0 /\ lastPublished.event = event

BroadcastTo(channel) == \E k \in 1..Len(lastPublished.channels) : lastPublished.channels[k] = channel

\* C17: every match-scoped event published on the bus (order:matched,
\* proof:generating, proof:generated, proof:failed, settlement:queued,
\* settlement:txBuilt, settlement:confirmed, settlement:failed,
\* signature:added, signature:complete) is broadcast to the channel
\* settlement:<matchId> of its match.
C17_SettlementFanOut ==
    \A event \in MatchScoped :
        Published(event) => BroadcastTo(Channel("settlement", lastPublished.data.matchId))

\* signature:added reached a socket subscribed to settlement:m1
C17_Witness ==
    /\ Published("signature:added")
    /\ <<Channel("settlement", "m1"), 1>> \in lastPublished.deliveries

\* the match an event is about
MatchOf(matchId) == CHOOSE m \in Matches : m.matchId = matchId

ToBothTraders ==
    LET m == MatchOf(lastPublished.data.matchId)
    IN  /\ BroadcastTo(Channel("trader", m.buyerAddress))
        /\ BroadcastTo(Channel("trader", m.sellerAddress))

ToOrderBook ==
    /\ Published("order:submitted") => BroadcastTo(Channel("orderbook", lastPublished.data.asset))
    /\ Published("order:matched") => BroadcastTo(Channel("orderbook", lastPublished.data.asset))

\* C18 as stated: every match-scoped event, signature:added and
\* signature:complete included, is broadcast to trader:<buyerAddress> and
\* trader:<sellerAddress> of its match, and order:submitted and
\* order:matched are broadcast to orderbook:<asset>.
C18_TraderFanOut ==
    /\ \A event \in MatchScoped : Published(event) => ToBothTraders
    /\ ToOrderBook

\* C18 amended: every match-scoped event except signature:added is
\* broadcast to trader:<buyerAddress> and trader:<sellerAddress> of its
\* match; signature:added is broadcast to settlement:<matchId> only;
\* order:submitted and order:matched are broadcast to orderbook:<asset>.
C18_TraderFanOutAmended ==
    /\ \A event \in MatchScoped \ {"signature:added"} : Published(event) => ToBothTraders
    /\ Published("signature:added") =>
          lastPublished.channels = <<Channel("settlement", lastPublished.data.matchId)>>
    /\ ToOrderBook

\* order:matched reached the buyer's and the seller's channel and the
\* order book of the asset, each with a subscriber
C18_Witness ==
    /\ Published("order:matched")
    /\ <<Channel("trader", "T1"), 1>> \in lastPublished.deliveries
    /\ <<Channel("trader", "T2"), 2>> \in lastPublished.deliveries
    /\ <<Channel("orderbook", "A1"), 2>> \in lastPublished.deliveries

(* ----------------------- heartbeat and disconnects --------------------- *)
\* SpecGateway: the gateway beside a working engine. Sockets connect,
\* subscribe, answer pings, close and fail; the heartbeat ticks; events
\* are published; orders are submitted and matched behind it. The ws
\* library emits "close" after "error" and after terminate(), so both
\* handlers have run before the next heartbeat tick.
MaxTicks == 3
MaxGatewayOrders == 2

\* the pong is not listened for
onPongIgnored(alive) == alive

\* ws.on("pong")
onPong(alive) == TRUE

\* the close handler does not release the subscriptions
onCloseKeeps(subs, ws) == subs

\* ws.on("close")
onClose(subs, ws) == removeClient(subs, ws)

\* ws.on("error")
onError(subs, ws) == removeClient(subs, ws)

\* the heartbeat's test of a client
isInactive(alive) == alive = FALSE

\* wss.clients
clientsOf(states) == {ws \in Sockets : states[ws] = "OPEN"}

\* the heartbeat's removeClient(ws) and terminate() for each inactive client
RECURSIVE terminateAll(_, _)
terminateAll(subs, inactive) ==
    IF inactive = {} THEN subs
    ELSE LET ws == CHOOSE x \in inactive : TRUE
         IN  terminateAll(onClose(removeClient(subs, ws), ws), inactive \ {ws})

\* a pong frame arrives
Pong(ws) ==
    /\ readyState[ws] = "OPEN"
    /\ isAlive' = [isAlive EXCEPT ![ws] = onPong(@)]
    /\ unanswered' = [unanswered EXCEPT ![ws] = 0]
    /\ UNCHANGED <<readyState, subscriptions, lastPublished, heartbeatTerminated, ticks>>
    /\ GatewayFrame

\* the peer closes the connection
Close(ws) ==
    /\ readyState[ws] = "OPEN"
    /\ readyState' = [readyState EXCEPT ![ws] = "CLOSED"]
    /\ subscriptions' = onClose(subscriptions, ws)
    /\ UNCHANGED <<isAlive, lastPublished, unanswered, heartbeatTerminated, ticks>>
    /\ GatewayFrame

\* the socket fails: "error", then "close"
Error(ws) ==
    /\ readyState[ws] = "OPEN"
    /\ readyState' = [readyState EXCEPT ![ws] = "CLOSED"]
    /\ subscriptions' = onClose(onError(subscriptions, ws), ws)
    /\ UNCHANGED <<isAlive, lastPublished, unanswered, heartbeatTerminated, ticks>>
    /\ GatewayFrame

\* one run of the setInterval callback over wss.clients
Heartbeat ==
    /\ ticks < MaxTicks
    /\ ticks' = ticks + 1
    /\ LET visited == clientsOf(readyState)
           inactive == {ws \in visited : isInactive(isAlive[ws])}
       IN  /\ subscriptions' = terminateAll(subscriptions, inactive)
           /\ readyState' = [ws \in Sockets |->
                                IF ws \in inactive THEN "CLOSED" ELSE readyState[ws]]
           /\ heartbeatTerminated' = heartbeatTerminated \cup inactive
           /\ isAlive' = [ws \in Sockets |->
                             IF ws \in visited \ inactive THEN FALSE ELSE isAlive[ws]]
           /\ unanswered' = [ws \in Sockets |->
                                IF ws \in visited \ inactive THEN unanswered[ws] + 1
                                ELSE unanswered[ws]]
    /\ UNCHANGED lastPublished
    /\ GatewayFrame

\* one buy and one sell that cross: a match for the queue
GatewayOrders ==
    {newOrder("A1", sd, 1, 2, 5, 7, TRUE, 0, 0) : sd \in Sides}

GatewayChannels == {Channel("trader", "T1"), Channel("settlement", "m1")}

GatewayEvents == {"order:matched", "signature:added"}

NextGateway ==
    \/ \E ws \in Sockets : Connect(ws)
    \/ \E ws \in Sockets, ch \in GatewayChannels : Subscribe(ws, ch)
    \/ \E ws \in Sockets : Pong(ws)
    \/ \E ws \in Sockets : Close(ws)
    \/ \E ws \in Sockets : Error(ws)
    \/ Heartbeat
    \/ \E event \in GatewayEvents : \E data \in Payloads(event) : Publish(event, data)
    \/ (nOrders < MaxGatewayOrders /\ \E order \in GatewayOrders : SubmitOrder(order))
    \/ ProcessMatches
    \/ \E inv \in invocations : SettleStep(inv)

SpecGateway == Init /\ [][NextGateway]_vars

Released(ws) == \A ch \in Channels : ws \notin subscriptions[ch]

NewlyTerminated(ws) == ws \in heartbeatTerminated' /\ ws \notin heartbeatTerminated

\* C19 as stated: the heartbeat terminates a client only when two
\* successive pings to it have gone unanswered; a client that has left
\* only one ping unanswered is not terminated.
C19_TwoUnansweredPings ==
    \A ws \in heartbeatTerminated : unanswered[ws] >= 2

C19_State ==
    \A ws \in heartbeatTerminated :
        /\ readyState[ws] = "CLOSED"
        /\ Released(ws)
        /\ unanswered[ws] = 1

C19_Step ==
    \A ws \in Sockets :
        NewlyTerminated(ws) <=>
            /\ ticks' = ticks + 1
            /\ readyState[ws] = "OPEN"
            /\ unanswered[ws] >= 1

\* C19 amended: at a heartbeat tick the server terminates a connected
\* client and releases its subscriptions if and only if the ping sent to
\* it at the previous tick has gone unanswered; one unanswered ping
\* suffices, and a client that answers every ping before the next tick is
\* never terminated by the heartbeat.
C19_OneUnansweredPing == [](C19_State) /\ [][C19_Step]_vars

\* after three ticks one socket was terminated over its one unanswered
\* ping, the other answered the first two pings and is connected
C19_Witness ==
    /\ ticks = 3
    /\ heartbeatTerminated = {1}
    /\ unanswered[1] = 1
    /\ readyState[2] = "OPEN"
    /\ unanswered[2] = 1
    /\ isAlive[2] = FALSE

Disconnects(ws) == readyState[ws] = "OPEN" /\ readyState'[ws] = "CLOSED"

C20_State == \A ws \in Sockets : readyState[ws] = "CLOSED" => Released(ws)

C20_Step ==
    /\ \A ws \in Sockets :
          Disconnects(ws) =>
              /\ Released(ws)'
              /\ UNCHANGED <<buyOrders, sellOrders, matchQueue, completedMatches,
                             invocations, lastReturned, settlementResults,
                             queued>>
    /\ lastPublished' # lastPublished =>
          \A d \in lastPublished'.deliveries : readyState[d[2]] = "OPEN"

\* C20: when a client's connection closes, raises an error or is
\* terminated by the heartbeat, all of its subscriptions are released, so
\* no later broadcast is delivered to it; the order books, the match
\* queue and the matches in flight are the same after the disconnect.
C20_DisconnectReleases == [](C20_State) /\ [][C20_Step]_vars

\* socket 1 was sent order:matched on the buyer's channel, then it was
\* terminated by the heartbeat while a match was being settled; socket 2
\* disconnected on its own
C20_Witness ==
    /\ Published("order:matched")
    /\ <<Channel("trader", "T1"), 1>> \in lastPublished.deliveries
    /\ 1 \in heartbeatTerminated
    /\ readyState[2] = "CLOSED"
    /\ 2 \notin heartbeatTerminated
    /\ Released(1)
    /\ invocations # {}

(* ------------- the settlement coordinator (SpecCoordinator) ------------ *)
\* the coordinator (services/settlement.ts) is followed for CoordMatches
\* through the state machine of the specification; the gateway hands the
\* events of a match to the client in the order the bus accepted them,
\* where the listeners of useMatchState dispatch to matchReducer

\* retry of transient on-chain errors: cap 5 attempts
RetryCap == 5

Collecting == {"awaiting-signatures", "partially-signed"}
Terminal == {"confirmed", "failed"}
Roles == {"buyer", "seller", "other"}

Event(event, matchId, record, error) ==
    [event |-> event, matchId |-> matchId, buyerSigned |-> record.buyerSigned,
     sellerSigned |-> record.sellerSigned, error |-> error]

\* has `role` already signed the record
hasSigned(record, role) ==
    \/ role = "buyer" /\ record.buyerSigned
    \/ role = "seller" /\ record.sellerSigned

\* submitSignature: rejected outside signature collection and for a wrong
\* role, a no-op for a side that has signed, else the side's slot is set
\* and the record moves on once both slots are true
submitSignature(record, role) ==
    IF record.status \notin Collecting \/ role \notin {"buyer", "seller"}
    THEN record
    ELSE IF hasSigned(record, role) THEN record
    ELSE LET b == record.buyerSigned \/ role = "buyer"
             s == record.sellerSigned \/ role = "seller"
         IN  [record EXCEPT !.buyerSigned = b, !.sellerSigned = s,
                            !.status = IF b /\ s THEN "signatures-complete"
                                       ELSE "partially-signed"]

\* what submitSignature puts on the bus: signature:added when a slot was
\* set, followed by signature:complete when that was the second one
signatureEvents(matchId, before, after) ==
    IF after = before THEN <<>>
    ELSE <<Event("signature:added", matchId, after, "")>>
         \o (IF after.status = "signatures-complete"
             THEN <<Event("signature:complete", matchId, after, "")>>
             ELSE <<>>)

\* the proof worker has finished the match: a failed proof is terminal
proofFinished(record, success) ==
    IF record.status # "proving" THEN record
    ELSE IF success THEN record
    ELSE [record EXCEPT !.status = "failed"]

\* queueSettlement: the record starts collecting signatures
queueSettlement(record) ==
    [record EXCEPT !.status = "awaiting-signatures", !.buyerSigned = FALSE,
                   !.sellerSigned = FALSE]

\* the signature deadline passes
signatureTimeout(record) ==
    IF record.status \in Collecting THEN [record EXCEPT !.status = "failed"]
    ELSE record

\* the sink's confirmed{txHash} callback
sinkConfirmed(record) ==
    IF record.status = "queued-on-chain"
    THEN [record EXCEPT !.status = "confirmed"]
    ELSE record

\* the sink's failed{error} callback: a transient error is retried until
\* the cap, anything else is terminal
sinkFailed(record, transient) ==
    IF record.status # "queued-on-chain" THEN record
    ELSE IF transient /\ record.attempts < RetryCap
    THEN [record EXCEPT !.attempts = @ + 1]
    ELSE [record EXCEPT !.status = "failed"]

(* the client: matchReducer and the listeners of useMatchState *)
UPDATE_MATCH_STATUS(matches, matchId, status, error) ==
    [i \in DOMAIN matches |->
        IF matches[i].matchId = matchId
        THEN [matches[i] EXCEPT !.status = status,
                                !.error = IF error # "" THEN error ELSE @]
        ELSE matches[i]]

UPDATE_SIGNATURE_STATUS(matches, matchId, buyerSigned, sellerSigned) ==
    [i \in DOMAIN matches |->
        IF matches[i].matchId = matchId
        THEN [matches[i] EXCEPT !.buyerSigned = buyerSigned,
                                !.sellerSigned = sellerSigned]
        ELSE matches[i]]

MatchIsNot(matchId, match) == match.matchId # matchId

MOVE_TO_CONFIRMED(matches, matchId) ==
    SelectSeq(matches, LAMBDA match : MatchIsNot(matchId, match))

\* the signature:added listener
onSignatureAddedEither(matches, data) ==
    LET updated == UPDATE_SIGNATURE_STATUS(matches, data.matchId,
                                           data.buyerSigned, data.sellerSigned)
    IN  IF data.buyerSigned \/ data.sellerSigned
        THEN UPDATE_MATCH_STATUS(updated, data.matchId, "submitted", "")
        ELSE updated

onSignatureAdded(matches, data) ==
    LET updated == UPDATE_SIGNATURE_STATUS(matches, data.matchId,
                                           data.buyerSigned, data.sellerSigned)
    IN  IF data.buyerSigned /\ data.sellerSigned
        THEN UPDATE_MATCH_STATUS(updated, data.matchId, "submitted", "")
        ELSE updated

\* the listeners registered with wsOn; the client is a party of every
\* match of CoordMatches, and an event without a listener changes nothing
onEvent(matches, data) ==
    CASE data.event = "settlement:queued" ->
            UPDATE_MATCH_STATUS(matches, data.matchId, "ready", "")
      [] data.event = "settlement:confirmed" ->
            MOVE_TO_CONFIRMED(matches, data.matchId)
      [] data.event = "settlement:failed" ->
            UPDATE_MATCH_STATUS(matches, data.matchId, "failed", data.error)
      [] data.event = "signature:added" -> onSignatureAdded(matches, data)
      [] OTHER -> matches

CoordFrame ==
    /\ UNCHANGED engineVars
    /\ UNCHANGED workerVars
    /\ UNCHANGED whitelistVars
    /\ UNCHANGED lastResponse
    /\ UNCHANGED <<treeVars, heapVars, proverVars, wsVars, deliveryVars,
                   hookVars, clientVars>>

\* the record of matchId becomes `after` and `events` are put on the bus
Transition(matchId, after, events) ==
    /\ records' = [records EXCEPT ![matchId] = after]
    /\ busLog' = [busLog EXCEPT ![matchId] = @ \o events]
    /\ UNCHANGED <<offChainMatches, seen>>
    /\ CoordFrame

\* a proof worker takes the match
StartProof(matchId) ==
    /\ records[matchId].status = "matched"
    /\ Transition(matchId, [records[matchId] EXCEPT !.status = "proving"],
                  <<Event("proof:generating", matchId, records[matchId], "")>>)

\* the proof result reaches the route, which queues it when it succeeded
ProofResult(matchId, success) ==
    /\ records[matchId].status = "proving"
    /\ LET proved == proofFinished(records[matchId], success)
           after == IF shouldQueue(success) THEN queueSettlement(proved)
                    ELSE proved
       IN  Transition(matchId, after,
              <<Event(IF success THEN "proof:generated" ELSE "proof:failed",
                      matchId, proved,
                      IF success THEN "" ELSE "proof-failed")>>
              \o (IF shouldQueue(success)
                  THEN <<Event("settlement:queued", matchId, after, "")>>
                  ELSE <<>>))

\* a signature is submitted, by either side or by somebody else, in any
\* state of the record
SubmitSignature(matchId, role) ==
    LET after == submitSignature(records[matchId], role)
    IN  Transition(matchId, after,
                   signatureEvents(matchId, records[matchId], after))

SignatureTimeout(matchId) ==
    LET after == signatureTimeout(records[matchId])
    IN  Transition(matchId, after,
           IF after = records[matchId] THEN <<>>
           ELSE <<Event("settlement:failed", matchId, after,
                        "signature-timeout")>>)

TxBuilt(matchId) ==
    /\ records[matchId].status = "signatures-complete"
    /\ LET after == [records[matchId] EXCEPT !.status = "queued-on-chain"]
       IN  Transition(matchId, after,
                      <<Event("settlement:txBuilt", matchId, after, "")>>)

SinkConfirmed(matchId) ==
    LET after == sinkConfirmed(records[matchId])
    IN  Transition(matchId, after,
           IF after = records[matchId] THEN <<>>
           ELSE <<Event("settlement:confirmed", matchId, after, "")>>)

SinkFailed(matchId, transient) ==
    LET after == sinkFailed(records[matchId], transient)
    IN  Transition(matchId, after,
           IF after.status = records[matchId].status THEN <<>>
           ELSE <<Event("settlement:failed", matchId, after,
                        "on-chain-terminal")>>)

\* the client's socket hands the next event of the match to its listener
Deliver(matchId) ==
    /\ seen[matchId] < Len(busLog[matchId])
    /\ offChainMatches' = onEvent(offChainMatches,
                                  busLog[matchId][seen[matchId] + 1])
    /\ seen' = [seen EXCEPT ![matchId] = @ + 1]
    /\ UNCHANGED <<records, busLog>>
    /\ CoordFrame

NextCoordinator ==
    \/ \E matchId \in CoordMatches : StartProof(matchId)
    \/ \E matchId \in CoordMatches, success \in BOOLEAN :
          ProofResult(matchId, success)
    \/ \E matchId \in CoordMatches, role \in Roles :
          SubmitSignature(matchId, role)
    \/ \E matchId \in CoordMatches : SignatureTimeout(matchId)
    \/ \E matchId \in CoordMatches : TxBuilt(matchId)
    \/ \E matchId \in CoordMatches : SinkConfirmed(matchId)
    \/ \E matchId \in CoordMatches, transient \in BOOLEAN :
          SinkFailed(matchId, transient)
    \/ \E matchId \in CoordMatches : Deliver(matchId)

SpecCoordinator == Init /\ [][NextCoordinator]_vars

\* the match of the client's state with this matchId, as a set
clientMatch(matchId) ==
    {offChainMatches[i] : i \in {j \in DOMAIN offChainMatches :
                                    offChainMatches[j].matchId = matchId}}

BothSigned(record) == record.buyerSigned /\ record.sellerSigned

\* the states a record is in after signature collection went through
PastCollection == {"signatures-complete", "queued-on-chain", "confirmed"}

\* signature:complete is on the bus only right after the signature:added
\* that carried both flags
CompleteFollowsSecondAdded(matchId) ==
    \A i \in DOMAIN busLog[matchId] :
        busLog[matchId][i].event = "signature:complete" =>
            /\ i > 1
            /\ busLog[matchId][i - 1].event = "signature:added"
            /\ BothSigned(busLog[matchId][i - 1])
            /\ \A j \in 1..(i - 2) :
                  busLog[matchId][j].event = "signature:added" =>
                      ~BothSigned(busLog[matchId][j])

C21_State ==
    \A matchId \in CoordMatches :
        /\ records[matchId].status = "partially-signed" =>
              ~BothSigned(records[matchId])
        /\ (\/ records[matchId].status \in PastCollection
            \/ \E i \in DOMAIN busLog[matchId] :
                  busLog[matchId][i].event = "signature:complete")
           => BothSigned(records[matchId])
        /\ CompleteFollowsSecondAdded(matchId)
        /\ \A match \in clientMatch(matchId) :
              match.status = "submitted" =>
                  BothSigned(match) /\ BothSigned(records[matchId])

C21_Step ==
    \A matchId \in CoordMatches, role \in Roles :
        SubmitSignature(matchId, role) /\ hasSigned(records[matchId], role)
            => UNCHANGED <<records, busLog>>

\* C21: a submission by a side that has already signed changes neither
\* flag nor the status and puts nothing on the bus; a record is past
\* signature collection, signature:complete is on the bus and the
\* client shows the match as submitted only when both flags are true;
\* signature:complete directly follows the signature:added that set the
\* second flag
C21_SignatureRendezvous == []C21_State /\ [][C21_Step]_vars

\* both sides signed in some order, the second submission put
\* signature:added and signature:complete on the bus, and the client has
\* handled them
C21_Witness ==
    \E matchId \in CoordMatches :
        /\ records[matchId].status = "signatures-complete"
        /\ \E i \in DOMAIN busLog[matchId] :
              busLog[matchId][i].event = "signature:complete"
        /\ \E match \in clientMatch(matchId) : match.status = "submitted"

\* the steps the workers, the signature deadline and the sink take on
\* their own; signatures are submitted only if the traders choose to
CoordProgress ==
    \E matchId \in CoordMatches :
        \/ StartProof(matchId)
        \/ \E success \in BOOLEAN : ProofResult(matchId, success)
        \/ SignatureTimeout(matchId)
        \/ TxBuilt(matchId)
        \/ SinkConfirmed(matchId)
        \/ \E transient \in BOOLEAN : SinkFailed(matchId, transient)

\* workers, timers and the sink are never starved
SpecCoordinatorFair == SpecCoordinator /\ WF_vars(CoordProgress)

TerminalEvents == {"proof:failed", "settlement:failed", "settlement:confirmed"}

\* the positions of the bus log of the match that hold a terminal event
terminalPositions(matchId) ==
    {i \in DOMAIN busLog[matchId] : busLog[matchId][i].event \in TerminalEvents}

C22_State ==
    \A matchId \in CoordMatches :
        /\ Cardinality(terminalPositions(matchId)) <= 1
        /\ records[matchId].status \in Terminal <=>
              terminalPositions(matchId) # {}
        /\ \A i \in terminalPositions(matchId) :
              /\ i = Len(busLog[matchId])
              /\ records[matchId].status =
                    IF busLog[matchId][i].event = "settlement:confirmed"
                    THEN "confirmed" ELSE "failed"

C22_Step ==
    \A matchId \in CoordMatches :
        records[matchId].status \in Terminal =>
            /\ records'[matchId] = records[matchId]
            /\ busLog'[matchId] = busLog[matchId]

C22_Eventually ==
    \A matchId \in CoordMatches : <>(records[matchId].status \in Terminal)

ThrownMessages ==
    {"Merkle proof not found", "whitelistRoot", "buyer merkle",
     "seller merkle", "line: 77", "line: 87"}

\* the shape of a result of a settlement that failed
FailureShape(r) ==
    /\ r.proof = <<>>
    /\ r.publicSignals = <<>>
    /\ r.nullifierHash = <<>>
    /\ r.error \in ThrownMessages

\* the result settleMatch returned for the match `inv` was suspended on:
\* one with the matchId of that match, failed with the message of the
\* throw when a Merkle proof was missing
ResultFor(inv, r) ==
    /\ r.matchId = inv.cur.matchId
    /\ r.success \in BOOLEAN
    /\ r.success = FALSE => FailureShape(r)
    /\ inv.captured = <<>> =>
          r.success = FALSE /\ r.error = "Merkle proof not found"

\* `results` is what the loop of processMatches holds after that match
Pushed(inv, results) ==
    /\ Len(results) = Len(inv.results) + 1
    /\ SubSeq(results, 1, Len(inv.results)) = inv.results
    /\ ResultFor(inv, results[Len(results)])

C23_State ==
    \A r \in KnownResults :
        /\ r.success = FALSE => FailureShape(r)
        /\ r.success = TRUE => r.error = "" /\ r.nullifierHash # <<>>

C23_Step ==
    \A inv \in invocations :
        SettleStep(inv) =>
            IF matchQueue # <<>>
            THEN \E next \in invocations' :
                    /\ next.caller = inv.caller
                    /\ next.cur = Head(matchQueue)
                    /\ Pushed(inv, next.results)
            ELSE /\ Pushed(inv, lastReturned')
                 /\ invocations' = invocations \ {inv}

\* C23: whatever fails inside settleMatch, a missing Merkle proof of the
\* buyer or the seller or a rejection by the prover, the call returns a
\* result with success = false, empty proof and public signals, empty
\* nullifierHash and the message of the error, and processMatches pushes
\* it and goes on with the next queued match
C23_SettleMatchNeverThrows == []C23_State /\ [][C23_Step]_vars

\* one processMatches call returned two results: the first match failed
\* for a missing Merkle proof, the second was settled after it
C23_Witness ==
    /\ Len(lastReturned) = 2
    /\ lastReturned[1].success = FALSE
    /\ lastReturned[1].error = "Merkle proof not found"
    /\ lastReturned[2].success = TRUE

(* ---------------- validation and expiry (SpecExpiry) ------------------- *)
\* the submit route with requests that carry an expiry and prices that
\* are not positive, over a clock that runs past the expiries
MaxExpiryOrders == 3
MaxExpiryTime == 2

ExpiryClock == {t \in now..(now + 1) : t <= MaxExpiryTime}

\* requests with every required field present: an expiry of 0 (read as
\* missing), of 1 and of 5 on the clock's scale
ExpiryBodies ==
    {[present |-> TRUE, numeric |-> TRUE, assetAddress |-> "A1",
      side |-> side, quantity |-> 1, price |-> price, secret |-> 5,
      nonce |-> 7, trader |-> "GAWA", whitelistIndex |-> 0,
      expiry |-> expiry] :
        side \in Sides, price \in Prices, expiry \in {0, 1, 5}}
    \cup
    {[present |-> FALSE, numeric |-> TRUE, assetAddress |-> "A1",
      side |-> Sell, quantity |-> 1, price |-> 1, secret |-> 5, nonce |-> 7,
      trader |-> "GAWA", whitelistIndex |-> 0, expiry |-> 5]}

NextExpiry ==
    \/ \E body \in ExpiryBodies :
          /\ body.present => nOrders < MaxExpiryOrders
          /\ \E t \in ExpiryClock : RouteSubmit(body, t)
    \/ RouteProcess
    \/ \E inv \in invocations : SettleStep(inv)

SpecExpiry == Init /\ [][NextExpiry]_vars

\* every order the engine holds or has matched
AcceptedOrders ==
    UNION {Range(buyOrders[a]) \cup Range(sellOrders[a]) : a \in Assets}
    \cup {completedMatches[i].buyOrder : i \in DOMAIN completedMatches}
    \cup {completedMatches[i].sellOrder : i \in DOMAIN completedMatches}

\* C24: the submit route rejects every order with quantity <= 0,
\* price <= 0 or expiry <= now, so every order that reached the engine has
\* a positive quantity, a positive price and an expiry after the time it
\* was submitted at
C24_RejectsInvalidOrders ==
    \A order \in AcceptedOrders :
        /\ order.quantity > 0
        /\ order.price > 0
        /\ order.expiry > order.timestamp

\* C25: an order stops being matchable once its expiry has passed: no
\* emitted match contains an order whose expiry was earlier than the time
\* the match was made
C25_NoExpiredOrderMatched ==
    \A i \in DOMAIN completedMatches :
        /\ completedMatches[i].buyOrder.expiry >= completedMatches[i].timestamp
        /\ completedMatches[i].sellOrder.expiry >= completedMatches[i].timestamp

(* ------------------ order of delivery (SpecDelivery) ------------------- *)
\* the bus numbers the events it accepts; the listener of an event sends
\* one message per subscriber of each of its channels down the socket of
\* that subscriber, and the client hook hands the messages it receives to
\* its listeners
MaxAccepted == 3

DeliveryChannels == {Channel("trader", "T1"), Channel("settlement", "m1")}
\* the sockets whose subscriptions come and go while events are emitted
Subscribers == {1}

DeliveryEvents == {"order:matched", "signature:added", "settlement:confirmed"}

\* broadcastToChannel for the channels of one listener, in the order of
\* its calls: sendMessage appends to the socket of each subscriber
RECURSIVE broadcastFrom(_, _, _, _, _)
broadcastFrom(streams, subs, channels, k, message) ==
    IF k > Len(channels) THEN streams
    ELSE broadcastFrom(
            [ws \in DOMAIN streams |->
                IF <<channels[k], ws>> \in broadcastToChannel(subs, channels[k])
                THEN Append(streams[ws], [message EXCEPT !.channel = channels[k]])
                ELSE streams[ws]],
            subs, channels, k + 1, message)

\* handleMessage of the client hook: an event message is emitted to the
\* listeners of its event, in the order the messages arrive
handleMessageNewestFirst(events, message) ==
    IF message.type = "event" THEN <<message>> \o events ELSE events

handleMessage(events, message) ==
    IF message.type = "event" THEN Append(events, message) ELSE events

DeliveryFrame ==
    /\ UNCHANGED engineVars
    /\ UNCHANGED workerVars
    /\ UNCHANGED whitelistVars
    /\ UNCHANGED lastResponse
    /\ UNCHANGED <<treeVars, heapVars, proverVars, wsVars, coordVars,
                   hookVars, clientVars>>

\* eventBus.emit(event, data): the bus accepts the event and its listener
\* broadcasts it
Emit(event, data) ==
    /\ accepted' = accepted + 1
    /\ inflight' = broadcastFrom(inflight, subscriptions,
                                 listenerChannels(event, data), 1,
                                 [type |-> "event", event |-> event,
                                  channel |-> <<>>, matchId |-> data.matchId,
                                  seq |-> accepted + 1])
    /\ UNCHANGED listened
    /\ DeliveryFrame

\* ws.onmessage of the client: the oldest message in flight arrives
Receive(ws) ==
    /\ inflight[ws] # <<>>
    /\ listened' = [listened EXCEPT ![ws] = handleMessage(@, Head(inflight[ws]))]
    /\ inflight' = [inflight EXCEPT ![ws] = Tail(@)]
    /\ UNCHANGED accepted
    /\ DeliveryFrame

NextDelivery ==
    \/ \E ws \in Sockets : Connect(ws)
    \/ \E ws \in Subscribers, ch \in DeliveryChannels : Subscribe(ws, ch)
    \/ \E ws \in Subscribers, ch \in DeliveryChannels : Unsubscribe(ws, ch)
    \/ (accepted < MaxAccepted
          /\ \E event \in DeliveryEvents : \E data \in Payloads(event) :
                Emit(event, data))
    \/ \E ws \in Sockets : Receive(ws)

SpecDelivery == Init /\ [][NextDelivery]_vars

\* the events of the match the listeners of the socket got on the channel
OnChannel(ws, channel, matchId) ==
    SelectSeq(listened[ws],
              LAMBDA message : message.channel = channel
                               /\ message.matchId = matchId)

C27_State ==
    \A i \in DOMAIN completedMatches :
        completedMatches[i].buyOrder.assetAddress
            = completedMatches[i].sellOrder.assetAddress

\* the matches a step has emitted
NewMatches ==
    {completedMatches'[i] :
        i \in (Len(completedMatches) + 1)..Len(completedMatches')}

C27_Step ==
    nOrders' = nOrders + 1 =>
        \E order \in AcceptedOrders' :
            /\ order.id = nOrders'
            /\ \A other \in Assets \ {order.assetAddress} :
                  /\ buyOrders'[other] = buyOrders[other]
                  /\ sellOrders'[other] = sellOrders[other]
            /\ \A match \in NewMatches :
                  /\ match.buyOrder.assetAddress = order.assetAddress
                  /\ match.sellOrder.assetAddress = order.assetAddress

\* C27: matching is per asset: the two orders of every emitted match are
\* on one asset, and submitting an order on an asset leaves the books of
\* every other asset as they were and emits matches of that asset only
C27_MatchingPerAsset == []C27_State /\ [][C27_Step]_vars

\* orders were submitted on both assets in turn, and each asset has
\* emitted a match of its own
C27_Witness ==
    /\ \E i \in DOMAIN completedMatches :
          completedMatches[i].buyOrder.assetAddress = "A2"
    /\ \E i \in DOMAIN completedMatches :
          completedMatches[i].buyOrder.assetAddress = "A1"

(* ----------------------- priority among the buys ----------------------- *)
\* a buy of the pass that could have taken the sell of its k-th match: it
\* crosses, has the sell's quantity and no earlier match of the pass had
\* claimed it
BuyEligibleFor(pass, k, x) ==
    LET s == pass.matches[k].sellOrder IN
    /\ x.price >= s.price
    /\ x.quantity = s.quantity
    /\ \A e \in 1..(k - 1) : pass.matches[e].buyOrder.id # x.id

\* C28: when several resting buys of an asset are eligible for one sell,
\* the sell is matched with the buy of highest price, among buys of equal
\* price with the one of earliest timestamp, and among those of equal
\* timestamp with the one submitted first
C28_BuyPriority ==
    \A k \in 1..Len(lastPass.matches) :
        LET b == lastPass.matches[k].buyOrder IN
        /\ b \in Range(lastPass.buys)
        /\ BuyEligibleFor(lastPass, k, b)
        /\ \A x \in Range(lastPass.buys) :
              BuyEligibleFor(lastPass, k, x) =>
                 /\ b.price >= x.price
                 /\ b.price = x.price => b.timestamp <= x.timestamp
                 /\ (b.price = x.price /\ b.timestamp = x.timestamp)
                       => b.id <= x.id

\* three buys of one quantity rest, two at price 2 from the same instant
\* and an earlier one at price 1; a sell at price 1 arrives and is matched
\* with the first submitted of the two buys at price 2
C28_Witness ==
    /\ Len(lastPass.buys) = 3
    /\ Len(lastPass.matches) = 1
    /\ lastPass.matches[1].sellOrder.price = 1
    /\ lastPass.matches[1].buyOrder.price = 2
    /\ \E x, y \in Range(lastPass.buys) :
          /\ x.price = 2 /\ x.id > lastPass.matches[1].buyOrder.id
          /\ x.timestamp = lastPass.matches[1].buyOrder.timestamp
          /\ y.price = 1 /\ y.timestamp < x.timestamp
          /\ x.quantity = lastPass.matches[1].sellOrder.quantity
          /\ y.quantity = lastPass.matches[1].sellOrder.quantity

(* ------------- storing and queuing results (SpecQueue) ----------------- *)
\* the two routes with the whitelist initialised or not, so that proofs
\* succeed and fail while processMatches calls overlap
MaxQueueOrders == 4

QueueBodies ==
    {[present |-> TRUE, numeric |-> TRUE, assetAddress |-> "A1",
      side |-> side, quantity |-> 1, price |-> price, secret |-> 5,
      nonce |-> 7, trader |-> "GAWA", whitelistIndex |-> 0, expiry |-> 0] :
        side \in Sides, price \in {1, 2}}

NextQueue ==
    \/ InitializeWhitelist(<<11, 12>>)
    \/ \E body \in QueueBodies :
          /\ nOrders < MaxQueueOrders
          /\ \E t \in Clock : RouteSubmit(body, t)
    \/ RouteProcess
    \/ \E inv \in invocations : SettleStep(inv)

SpecQueue == Init /\ [][NextQueue]_vars

\* how many of the stored results are results of the match
StoredFor(matchId) ==
    Cardinality({i \in DOMAIN settlementResults :
                    settlementResults[i].matchId = matchId})

\* the match has left the queue and the processMatches call that took it
\* has returned
Processed(matchId) ==
    /\ \A i \in DOMAIN matchQueue : matchQueue[i].matchId # matchId
    /\ \A inv \in invocations :
          /\ inv.cur.matchId # matchId
          /\ \A i \in DOMAIN inv.results : inv.results[i].matchId # matchId

\* C29: however the processMatches calls of the two routes overlap,
\* queueSettlement is called for a match only if its stored proof result
\* has success = true and at most once per match, and exactly one
\* settlement result is stored for every processed match
C29_StoredOnceQueuedOnSuccess ==
    /\ \A i \in DOMAIN queued :
          /\ \E k \in DOMAIN settlementResults :
                /\ settlementResults[k].matchId = queued[i]
                /\ settlementResults[k].success = TRUE
          /\ \A j \in DOMAIN queued : queued[j] = queued[i] => j = i
    /\ \A k \in DOMAIN completedMatches :
          /\ StoredFor(completedMatches[k].matchId) <= 1
          /\ Processed(completedMatches[k].matchId)
                => StoredFor(completedMatches[k].matchId) = 1

\* two processMatches calls started by the submit route have returned:
\* one match failed and was stored only, the other succeeded and was
\* stored and queued
C29_Witness ==
    /\ Len(settlementResults) = 2
    /\ Len(queued) = 1
    /\ \E i \in 1..2 : settlementResults[i].success = FALSE
    /\ lastReturned # settlementResults

(* -------------------- the client hook (SpecHook) ----------------------- *)
\* useMatchingEngineWS: connect and disconnect as the component calls
\* them, the handlers of the WebSockets it creates and its reconnect timers
reconnectAttempts == 5
reconnectDelay == 1000

\* WebSockets one behaviour creates
MaxClientSockets == 6

\* the fields connect() reads and writes
HookState == [wsRef |-> wsRef, sockets |-> clientSockets,
              connectionState |-> connectionState]

\* connect(): nothing when the current socket is open or connecting, else
\* a new WebSocket becomes the current one
connect(hook) ==
    IF hook.wsRef # 0 /\ hook.sockets[hook.wsRef] \in {"OPEN", "CONNECTING"}
    THEN hook
    ELSE [wsRef |-> Len(hook.sockets) + 1,
          sockets |-> Append(hook.sockets, "CONNECTING"),
          connectionState |-> "connecting"]

\* the delay of the reconnect that onclose schedules
delay(attempts) == reconnectDelay * Pow2(attempts)

HookFrame ==
    /\ UNCHANGED engineVars
    /\ UNCHANGED workerVars
    /\ UNCHANGED whitelistVars
    /\ UNCHANGED lastResponse
    /\ UNCHANGED <<treeVars, heapVars, proverVars, wsVars, coordVars,
                   deliveryVars, clientVars>>

\* channels a component may subscribe to
HookChannels == {"trader:A1", "settlement:m1"}

\* ws.send of a subscribe message for each of the channels; the gateway
\* answers each with a "subscribed" message
subscribeSent(log, ws, channels) ==
    IF ws = 0 THEN log ELSE [log EXCEPT ![ws] = @ \cup channels]

subscribeAcks(ws, channels) == {<<ws, channel>> : channel \in channels}

\* the effect on [connectionState, subscribedChannels]: the channels it
\* sends a subscribe for on the current socket
pendingEffect(state, ref, sockets, pending, subscribed) ==
    IF state = "connected" /\ ref # 0 /\ sockets[ref] = "OPEN"
    THEN pending \ subscribed
    ELSE {}

\* the log of a socket that connect() has just created is empty
sentOnAfter(hook) ==
    IF Len(hook.sockets) > Len(clientSockets) THEN Append(sentOn, {})
    ELSE sentOn

\* the component calls connect(): on mount, or whenever it chooses to
HookConnect ==
    /\ LET hook == connect(HookState)
       IN  /\ wsRef' = hook.wsRef
           /\ clientSockets' = hook.sockets
           /\ connectionState' = hook.connectionState
           /\ sentOn' = sentOnAfter(hook)
    /\ userClosed' = FALSE
    /\ UNCHANGED <<reconnectAttemptsRef, reconnectTimeoutRef, timers, scheduled,
                   openedAt, pendingSubscriptionsRef, subscribedChannels,
                   retryTimers, acks, wanted, reconnects>>
    /\ HookFrame

\* ws.onopen, then the effect on the new connectionState
OnOpen(ws) ==
    /\ clientSockets[ws] = "CONNECTING"
    /\ clientSockets' = [clientSockets EXCEPT ![ws] = "OPEN"]
    /\ connectionState' = "connected"
    /\ reconnectAttemptsRef' = 0
    /\ openedAt' = Len(scheduled)
    /\ LET again == pendingEffect("connected", wsRef, clientSockets',
                                  pendingSubscriptionsRef, subscribedChannels)
       IN  /\ sentOn' = subscribeSent(
                            subscribeSent(sentOn, ws, pendingSubscriptionsRef),
                            wsRef, again)
           /\ acks' = acks \cup subscribeAcks(ws, pendingSubscriptionsRef)
                           \cup subscribeAcks(wsRef, again)
    /\ UNCHANGED <<wsRef, reconnectTimeoutRef, timers, scheduled,
                   pendingSubscriptionsRef, subscribedChannels, retryTimers,
                   wanted, reconnects, userClosed>>
    /\ HookFrame

\* the connection fails or is closed by the other end: ws.onclose; what
\* the gateway had sent on it is lost
OnClose(ws) ==
    /\ clientSockets[ws] \in {"CONNECTING", "OPEN"}
    /\ clientSockets' = [clientSockets EXCEPT ![ws] = "CLOSED"]
    /\ acks' = {ack \in acks : ack[1] # ws}
    /\ IF wsRef = ws
       THEN /\ wsRef' = 0
            /\ IF reconnectAttemptsRef < reconnectAttempts
               THEN /\ connectionState' = "reconnecting"
                    /\ reconnectTimeoutRef' = Len(scheduled) + 1
                    /\ timers' = timers \cup {Len(scheduled) + 1}
                    /\ scheduled' = Append(scheduled,
                          [delay |-> delay(reconnectAttemptsRef),
                           rank |-> Len(scheduled) - openedAt])
               ELSE /\ connectionState' = "disconnected"
                    /\ UNCHANGED <<reconnectTimeoutRef, timers, scheduled>>
       ELSE UNCHANGED <<wsRef, connectionState, reconnectTimeoutRef, timers,
                        scheduled>>
    /\ UNCHANGED <<reconnectAttemptsRef, openedAt, pendingSubscriptionsRef,
                   subscribedChannels, retryTimers, sentOn, wanted,
                   reconnects, userClosed>>
    /\ HookFrame

\* a reconnect timer fires: the counter is incremented, then connect()
TimerFires(timer) ==
    /\ timer \in timers
    /\ timers' = timers \ {timer}
    /\ reconnectAttemptsRef' = reconnectAttemptsRef + 1
    /\ LET hook == connect(HookState)
       IN  /\ wsRef' = hook.wsRef
           /\ clientSockets' = hook.sockets
           /\ connectionState' = hook.connectionState
           /\ sentOn' = sentOnAfter(hook)
           /\ reconnects' = IF Len(hook.sockets) > Len(clientSockets)
                            THEN reconnects \cup {hook.wsRef}
                            ELSE reconnects
    /\ UNCHANGED <<reconnectTimeoutRef, scheduled, openedAt,
                   pendingSubscriptionsRef, subscribedChannels, retryTimers,
                   acks, wanted, userClosed>>
    /\ HookFrame

\* disconnect(): the timer of reconnectTimeoutRef is cleared, the counter
\* is set to reconnectAttempts, the current socket is closed and dropped,
\* subscribedChannels is emptied
HookDisconnect ==
    /\ timers' = timers \ {reconnectTimeoutRef}
    /\ reconnectTimeoutRef' = 0
    /\ reconnectAttemptsRef' = reconnectAttempts
    /\ clientSockets' = [ws \in DOMAIN clientSockets |->
                            IF ws = wsRef THEN "CLOSED" ELSE clientSockets[ws]]
    /\ acks' = {ack \in acks : ack[1] # wsRef}
    /\ wsRef' = 0
    /\ connectionState' = "disconnected"
    /\ subscribedChannels' = {}
    /\ userClosed' = TRUE
    /\ UNCHANGED <<scheduled, openedAt, pendingSubscriptionsRef, retryTimers,
                   sentOn, wanted, reconnects>>
    /\ HookFrame

\* trySend of subscribe(): sends when the current socket is open
trySend(channel) ==
    wsRef # 0 /\ clientSockets[wsRef] = "OPEN"

\* subscribe(channel): the channel is pending; it is sent at once on an
\* open socket, else retried in a microtask (nothing can have changed by
\* then) and once more 100 ms later
HookSubscribe(channel) ==
    /\ pendingSubscriptionsRef' = pendingSubscriptionsRef \cup {channel}
    /\ wanted' = wanted \cup {channel}
    /\ IF trySend(channel)
       THEN /\ sentOn' = subscribeSent(sentOn, wsRef, {channel})
            /\ acks' = acks \cup subscribeAcks(wsRef, {channel})
            /\ UNCHANGED retryTimers
       ELSE /\ retryTimers' = retryTimers \cup {channel}
            /\ UNCHANGED <<sentOn, acks>>
    /\ UNCHANGED <<wsRef, clientSockets, connectionState,
                   reconnectAttemptsRef, reconnectTimeoutRef, timers,
                   scheduled, openedAt, subscribedChannels, reconnects,
                   userClosed>>
    /\ HookFrame

\* setTimeout(trySend, 100) of subscribe()
RetryFires(channel) ==
    /\ channel \in retryTimers
    /\ retryTimers' = retryTimers \ {channel}
    /\ IF trySend(channel)
       THEN /\ sentOn' = subscribeSent(sentOn, wsRef, {channel})
            /\ acks' = acks \cup subscribeAcks(wsRef, {channel})
       ELSE UNCHANGED <<sentOn, acks>>
    /\ UNCHANGED <<wsRef, clientSockets, connectionState,
                   reconnectAttemptsRef, reconnectTimeoutRef, timers,
                   scheduled, openedAt, pendingSubscriptionsRef,
                   subscribedChannels, wanted, reconnects, userClosed>>
    /\ HookFrame

\* unsubscribe(channel): no longer pending nor in subscribedChannels; the
\* effect on subscribedChannels follows when the channel was in it
HookUnsubscribe(channel) ==
    /\ pendingSubscriptionsRef' = pendingSubscriptionsRef \ {channel}
    /\ subscribedChannels' = subscribedChannels \ {channel}
    /\ wanted' = wanted \ {channel}
    /\ LET again == IF channel \in subscribedChannels
                    THEN pendingEffect(connectionState, wsRef, clientSockets,
                                       pendingSubscriptionsRef',
                                       subscribedChannels')
                    ELSE {}
       IN  /\ sentOn' = subscribeSent(sentOn, wsRef, again)
           /\ acks' = acks \cup subscribeAcks(wsRef, again)
    /\ UNCHANGED <<wsRef, clientSockets, connectionState,
                   reconnectAttemptsRef, reconnectTimeoutRef, timers,
                   scheduled, openedAt, retryTimers, reconnects, userClosed>>
    /\ HookFrame

\* handleMessage of a "subscribed" message, then the effect on the new
\* subscribedChannels
OnSubscribed(ws, channel) ==
    /\ <<ws, channel>> \in acks
    /\ clientSockets[ws] = "OPEN"
    /\ subscribedChannels' = subscribedChannels \cup {channel}
    /\ pendingSubscriptionsRef' = pendingSubscriptionsRef \ {channel}
    /\ LET again == IF channel \notin subscribedChannels
                    THEN pendingEffect(connectionState, wsRef, clientSockets,
                                       pendingSubscriptionsRef',
                                       subscribedChannels')
                    ELSE {}
       IN  /\ sentOn' = subscribeSent(sentOn, wsRef, again)
           /\ acks' = (acks \ {<<ws, channel>>})
                          \cup subscribeAcks(wsRef, again)
    /\ UNCHANGED <<wsRef, clientSockets, connectionState,
                   reconnectAttemptsRef, reconnectTimeoutRef, timers,
                   scheduled, openedAt, retryTimers, wanted, reconnects,
                   userClosed>>
    /\ HookFrame

NextHook ==
    \/ (Len(clientSockets) < MaxClientSockets /\ HookConnect)
    \/ \E ws \in DOMAIN clientSockets : OnOpen(ws)
    \/ \E ws \in DOMAIN clientSockets : OnClose(ws)
    \/ (Len(clientSockets) < MaxClientSockets
          /\ \E timer \in timers : TimerFires(timer))
    \/ HookDisconnect

SpecHook == Init /\ [][NextHook]_vars

\* rank: how many reconnects had been scheduled since the last open (or
\* since the mount) when this one was
C30_State ==
    /\ \A i \in DOMAIN scheduled :
          /\ scheduled[i].delay = reconnectDelay * Pow2(scheduled[i].rank)
          /\ scheduled[i].rank < reconnectAttempts
    /\ (Len(scheduled) - openedAt = reconnectAttempts /\ wsRef = 0
          /\ timers = {})
          => connectionState = "disconnected"

C30_Step ==
    \A ws \in DOMAIN clientSockets : OnOpen(ws) => reconnectAttemptsRef' = 0

\* C30: after an unexpected close of the current socket the k-th
\* consecutive reconnect (k = 0, 1, ...) is scheduled after
\* reconnectDelay * 2^k ms, at most reconnectAttempts reconnects are made
\* without a successful open, after which the state stays disconnected,
\* and a successful open resets the attempt counter to 0
C30_ReconnectBackoff == []C30_State /\ [][C30_Step]_vars

(* ------------------ the hook's channel subscriptions ------------------ *)
\* sockets created in one behaviour of SpecSubs
MaxSubsSockets == 3

NextSubs ==
    \/ (Len(clientSockets) < MaxSubsSockets /\ HookConnect)
    \/ \E ws \in DOMAIN clientSockets : OnOpen(ws)
    \/ \E ws \in DOMAIN clientSockets : OnClose(ws)
    \/ (Len(clientSockets) < MaxSubsSockets
          /\ \E timer \in timers : TimerFires(timer))
    \/ HookDisconnect
    \/ \E channel \in HookChannels : HookSubscribe(channel)
    \/ \E channel \in HookChannels : RetryFires(channel)
    \/ \E channel \in HookChannels : HookUnsubscribe(channel)
    \/ \E ws \in DOMAIN clientSockets, channel \in HookChannels :
          OnSubscribed(ws, channel)

SpecSubs == Init /\ [][NextSubs]_vars

\* C31: once the socket of a reconnect is open, a subscribe message has
\* been sent on it for every channel the client subscribed to and did not
\* unsubscribe from, acknowledged on the old connection or not
C31_ResubscribedAfterReconnect ==
    \A ws \in reconnects :
        (wsRef = ws /\ clientSockets[ws] = "OPEN") => wanted \subseteq sentOn[ws]

\* C32: after disconnect() and until connect() is called again no
\* reconnect timer is pending, no socket is current and connectionState
\* is disconnected
C32_NoReconnectAfterDisconnect ==
    userClosed => /\ timers = {}
                  /\ wsRef = 0
                  /\ connectionState = "disconnected"

(* ------------------- useMatchState and matchReducer ------------------- *)
\* API requests awaited at one time
MaxFetches == 1
\* calls of refetchAll in one behaviour
MaxRefetches == 2
\* Date.now() of a SET_MATCHES: some time after the mount at 0
SyncTime == 1

Undefined == "undefined"
TempIds == {"optimistic-1"}
OpenOrderLists == {<<>>, <<"order-1">>}

\* formatMatch with the status of the settlement the API returned
formatted(matchId, status) == [formatMatch(matchId) EXCEPT !.status = status]

HasMatchId(matches, matchId) ==
    \E i \in DOMAIN matches : matches[i].matchId = matchId

\* case 'ADD_MATCH' without the duplicate check
ADD_MATCH_Unchecked(matches, payload) == <<payload>> \o matches

\* case 'ADD_MATCH'
ADD_MATCH(matches, payload) ==
    IF HasMatchId(matches, payload.matchId) THEN matches
    ELSE <<payload>> \o matches

\* case 'SET_MATCHES' taking openOrders from the payload as it is
SET_MATCHES_PayloadOrders(state, matches, orders, t) ==
    [state EXCEPT !.offChainMatches = matches,
                  !.openOrders = IF orders # Undefined THEN orders ELSE <<>>,
                  !.lastSyncTimestamp = t]

\* case 'SET_MATCHES'
SET_MATCHES(state, matches, orders, t) ==
    [state EXCEPT !.offChainMatches = matches,
                  !.openOrders = IF orders # Undefined THEN orders ELSE @,
                  !.lastSyncTimestamp = t]

\* matchReducer; an action on matches alone goes through the case above
matchReducer(state, action) ==
    CASE action.type = "ADD_OPTIMISTIC_ORDER" ->
            [state EXCEPT !.optimisticOrders = @ \cup {action.payload}]
      [] action.type = "REMOVE_OPTIMISTIC_ORDER" ->
            [state EXCEPT !.optimisticOrders = @ \ {action.payload}]
      [] action.type = "ADD_MATCH" ->
            [state EXCEPT !.offChainMatches = ADD_MATCH(@, action.payload)]
      [] action.type = "SET_MATCHES" ->
            SET_MATCHES(state, action.payload, Undefined, SyncTime)
      [] action.type = "SET_OPEN_ORDERS" ->
            [state EXCEPT !.openOrders = action.payload]
      [] action.type = "WS_EVENT" ->
            [state EXCEPT !.offChainMatches = onEvent(@, action.payload)]
      [] OTHER -> state

\* what GET /api/matches and the trader's settlements can give refetchAll
\* after its filter: for each match nothing, or the match unconfirmed
SnapshotStatuses == {"none", "matched", "failed"}

snapshotOf(s1, s2) ==
    (IF s1 = "none" THEN <<>> ELSE <<formatted("m1", s1)>>)
        \o (IF s2 = "none" THEN <<>> ELSE <<formatted("m2", s2)>>)

Snapshots ==
    {snapshotOf("none", "none"), snapshotOf("matched", "none"),
     snapshotOf("failed", "matched")}

\* what the API can give fetchAndAddMatch: no match, or the match with the
\* status of its settlement
FetchedStatuses == {"none", "matched", "confirmed"}

\* refetchAll(): returns at once without address or asset, else the requests
\* go out; matches is what the answers will hold
refetchAll(pending, ready, matches) ==
    IF ready THEN Append(pending, [kind |-> "all", matches |-> matches])
    ELSE pending

\* fetchAndAddMatch(matchId)
fetchAndAddMatch(pending, ready, matchId, status) ==
    IF ready
    THEN Append(pending, [kind |-> "one",
                          matches |-> IF status = "none" THEN <<>>
                                      ELSE <<formatted(matchId, status)>>])
    ELSE pending

\* the condition of the initial load effect
initialLoad(ready) == ready /\ ~isInitializedRef

\* the condition of the reconnect effect, the initial load effect having run
reconnected(connected, initialized) ==
    connected /\ ~wasConnectedRef /\ initialized

ClientFrame ==
    /\ UNCHANGED engineVars
    /\ UNCHANGED workerVars
    /\ UNCHANGED whitelistVars
    /\ UNCHANGED lastResponse
    /\ UNCHANGED <<treeVars, heapVars, proverVars, wsVars, coordVars,
                   deliveryVars, hookVars>>

\* a render with new props: the initial load effect, then the reconnect
\* effect
Render(connected, ready, matches) ==
    /\ connected # wsConnected \/ ready # walletReady
    /\ refetchAllCalls < MaxRefetches
    /\ LET first == initialLoad(ready)
           initialized == isInitializedRef \/ first
           second == reconnected(connected, initialized)
           afterFirst == IF first THEN refetchAll(fetches, ready, matches)
                         ELSE fetches
           afterSecond == IF second THEN refetchAll(afterFirst, ready, matches)
                          ELSE afterFirst
       IN  /\ Len(afterSecond) <= MaxFetches
           /\ isInitializedRef' = initialized
           /\ fetches' = afterSecond
           /\ refetchAllCalls' = refetchAllCalls
                                   + (IF first THEN 1 ELSE 0)
                                   + (IF second THEN 1 ELSE 0)
    /\ wasConnectedRef' = connected
    /\ wsConnected' = connected
    /\ walletReady' = ready
    /\ UNCHANGED <<matchState, confirmedHandled, duplicateAdd>>
    /\ ClientFrame

\* a listener registered with wsOn handles an event; party: the user is
\* the buyer or the seller of the match
OnWsEvent(data, party, status) ==
    /\ wsConnected /\ walletReady
    /\ IF data.event = "order:matched"
       THEN /\ fetches' = IF party
                          THEN fetchAndAddMatch(fetches, walletReady,
                                                data.matchId, status)
                          ELSE fetches
            /\ Len(fetches') <= MaxFetches
            /\ UNCHANGED matchState
       ELSE /\ matchState' =
                  IF party \/ data.event = "signature:added"
                  THEN matchReducer(matchState,
                                    [type |-> "WS_EVENT", payload |-> data])
                  ELSE matchState
            /\ UNCHANGED fetches
    /\ confirmedHandled' =
          IF party /\ data.event = "settlement:confirmed"
          THEN confirmedHandled \cup {data.matchId}
          ELSE confirmedHandled
    /\ UNCHANGED <<wsConnected, walletReady, wasConnectedRef,
                   isInitializedRef, refetchAllCalls, duplicateAdd>>
    /\ ClientFrame

\* the answers of a request arrive: refetchAll dispatches SET_MATCHES,
\* fetchAndAddMatch dispatches ADD_MATCH when it got the match
FetchCompletes(i) ==
    /\ i \in DOMAIN fetches
    /\ fetches' = SubSeq(fetches, 1, i - 1) \o SubSeq(fetches, i + 1, Len(fetches))
    /\ matchState' =
          IF fetches[i].kind = "all"
          THEN matchReducer(matchState, [type |-> "SET_MATCHES",
                                         payload |-> fetches[i].matches])
          ELSE IF fetches[i].matches # <<>>
          THEN matchReducer(matchState, [type |-> "ADD_MATCH",
                                         payload |-> fetches[i].matches[1]])
          ELSE matchState
    /\ duplicateAdd' =
          (duplicateAdd \/ (/\ fetches[i].kind = "one"
                            /\ fetches[i].matches # <<>>
                            /\ HasMatchId(matchState.offChainMatches,
                                          fetches[i].matches[1].matchId)))
    /\ UNCHANGED <<wsConnected, walletReady, wasConnectedRef,
                   isInitializedRef, refetchAllCalls, confirmedHandled>>
    /\ ClientFrame

\* addOptimisticOrder, removeOptimisticOrder, setOpenOrders
Dispatch(action) ==
    /\ matchState' = matchReducer(matchState, action)
    /\ UNCHANGED <<wsConnected, walletReady, wasConnectedRef,
                   isInitializedRef, fetches, refetchAllCalls,
                   confirmedHandled, duplicateAdd>>
    /\ ClientFrame

\* the events the gateway can send: the status events of one match, and
\* order:matched of either
WsEvent(event, matchId, sellerSigned) ==
    [event |-> event, matchId |-> matchId, buyerSigned |-> TRUE,
     sellerSigned |-> sellerSigned,
     error |-> IF event = "settlement:failed" THEN "signature-timeout" ELSE ""]

StatusEvents ==
    {WsEvent(event, "m1", TRUE) :
        event \in {"settlement:queued", "settlement:confirmed",
                   "settlement:failed", "signature:added"}}
        \cup {WsEvent("signature:added", "m1", FALSE)}

NextClient ==
    \/ \E connected \in BOOLEAN, ready \in BOOLEAN, matches \in Snapshots :
          Render(connected, ready, matches)
    \/ \E data \in StatusEvents, party \in BOOLEAN :
          OnWsEvent(data, party, "none")
    \/ \E matchId \in CoordMatches, status \in FetchedStatuses :
          OnWsEvent(WsEvent("order:matched", matchId, FALSE), TRUE, status)
    \/ \E i \in 1..MaxFetches : FetchCompletes(i)
    \/ \E tempId \in TempIds :
          Dispatch([type |-> "ADD_OPTIMISTIC_ORDER", payload |-> tempId])
    \/ \E tempId \in TempIds :
          Dispatch([type |-> "REMOVE_OPTIMISTIC_ORDER", payload |-> tempId])
    \/ \E orders \in OpenOrderLists :
          Dispatch([type |-> "SET_OPEN_ORDERS", payload |-> orders])

SpecClient == Init /\ [][NextClient]_vars

MatchIdsDistinct(matches) ==
    \A i, j \in DOMAIN matches :
        matches[i].matchId = matches[j].matchId => i = j

\* C33: the matchIds of offChainMatches stay pairwise distinct under
\* ADD_MATCH (which returns the state unchanged for a matchId already
\* present), the status actions, MOVE_TO_CONFIRMED and the optimistic-order
\* actions
C33_MatchIdsDistinct == MatchIdsDistinct(matchState.offChainMatches)

\* an ADD_MATCH for a matchId already shown has been dispatched, and two
\* matches are shown
C33_Witness == duplicateAdd /\ Len(matchState.offChainMatches) = 2

\* C34: a match whose settlement:confirmed event has been handled is not
\* in offChainMatches
C34_ConfirmedNotShown ==
    \A matchId \in confirmedHandled :
        ~HasMatchId(matchState.offChainMatches, matchId)

\* the SET_MATCHES of a snapshot: the matches are replaced, the orders kept
SnapshotInstalled(i) ==
    /\ matchState'.offChainMatches = fetches[i].matches
    /\ matchState'.openOrders = matchState.openOrders
    /\ matchState'.optimisticOrders = matchState.optimisticOrders

C35_Step ==
    /\ (isInitializedRef /\ ~wsConnected /\ wsConnected')
          => refetchAllCalls' = refetchAllCalls + 1
    /\ \A i \in DOMAIN fetches :
          (FetchCompletes(i) /\ fetches[i].kind = "all") => SnapshotInstalled(i)

\* C35: once the initial load has run, every change of wsConnected from
\* false to true calls refetchAll once, and the SET_MATCHES of a snapshot
\* replaces offChainMatches and leaves openOrders and optimisticOrders as
\* they were
C35_ReconnectRefetch == [][C35_Step]_vars

\* a snapshot has been installed after the second refetchAll call, over
\* open orders and an optimistic order
C35_Witness ==
    /\ refetchAllCalls = 2
    /\ fetches = <<>>
    /\ matchState.lastSyncTimestamp = SyncTime
    /\ matchState.offChainMatches # <<>>
    /\ matchState.openOrders # <<>>
    /\ matchState.optimisticOrders # {}

ShownAs(state, matchId, statuses) ==
    \A i \in DOMAIN state.offChainMatches :
        state.offChainMatches[i].matchId = matchId
            => state.offChainMatches[i].status \in statuses

ShownFailed(matchId) ==
    \E i \in DOMAIN matchState.offChainMatches :
        /\ matchState.offChainMatches[i].matchId = matchId
        /\ matchState.offChainMatches[i].status = "failed"

C39_Step ==
    \A data \in StatusEvents, party \in BOOLEAN :
        (OnWsEvent(data, party, "none") /\ ShownFailed(data.matchId))
            => ShownAs(matchState', data.matchId, {"failed", "confirmed"})

\* C39: once a match is shown as failed, no WebSocket event for it gives
\* it a status that is not terminal
C39_FailedIsTerminal == [][C39_Step]_vars

(* ---------------------------- the books ------------------------------- *)
Matchable(buyOrder, sellOrder) ==
    /\ buyOrder.quantity = sellOrder.quantity
    /\ buyOrder.price >= sellOrder.price

\* C36: after every submitOrder call no asset's book holds a buy and a
\* sell that could be matched, and the call emitted at most one match
C36_NoMatchablePairLeft ==
    /\ \A a \in Assets :
          \A i \in DOMAIN buyOrders[a], j \in DOMAIN sellOrders[a] :
              ~Matchable(buyOrders[a][i], sellOrders[a][j])
    /\ Len(lastPass.matches) <= 1

\* the last call emitted a match and left a buy and a sell of equal
\* quantity on the books of that asset
C36_Witness ==
    /\ Len(lastPass.matches) = 1
    /\ \E i \in DOMAIN buyOrders[lastPass.asset],
          j \in DOMAIN sellOrders[lastPass.asset] :
          buyOrders[lastPass.asset][i].quantity
              = sellOrders[lastPass.asset][j].quantity

(* ------------------------- the side of an order ----------------------- *)
\* orders submitted in one behaviour of SpecSides
MaxSideOrders == 3

\* requests with every required field present; the side field is Buy,
\* Sell or 2, which is neither
SideBodies ==
    {[present |-> TRUE, numeric |-> TRUE, assetAddress |-> a,
      side |-> side, quantity |-> quantity, price |-> price, secret |-> 5,
      nonce |-> 7, trader |-> "GAWA", whitelistIndex |-> 0, expiry |-> 0] :
        a \in Assets, side \in Sides \cup {2}, quantity \in {1, 2},
        price \in {1, 2}}
    \cup
    {[present |-> FALSE, numeric |-> TRUE, assetAddress |-> "A1",
      side |-> Sell, quantity |-> 1, price |-> 1, secret |-> 5, nonce |-> 7,
      trader |-> "GAWA", whitelistIndex |-> 0, expiry |-> 0]}

NextSides ==
    \/ \E body \in SideBodies :
          /\ body.present => nOrders < MaxSideOrders
          /\ RouteSubmit(body, now)
    \/ RouteProcess
    \/ \E inv \in invocations : SettleStep(inv)

SpecSides == Init /\ [][NextSides]_vars

\* C40: in every emitted match the buy order's side is Buy and the sell
\* order's side is Sell, whatever side field the accepted requests carried
C40_MatchSides ==
    \A i \in DOMAIN completedMatches :
        /\ completedMatches[i].buyOrder.side = Buy
        /\ completedMatches[i].sellOrder.side = Sell

(* ------------------- interleaved processMatches calls ----------------- *)
\* where a match is: waiting in the queue, taken by an invocation that is
\* settling it or holds its result, or stored with the results of an
\* invocation that has returned
Holders(matchId) ==
    Cardinality({i \in DOMAIN matchQueue : matchQueue[i].matchId = matchId})
    + Cardinality({inv \in invocations : inv.cur.matchId = matchId})
    + Cardinality({pair \in invocations \X (1..MaxQueueOrders) :
                      /\ pair[2] \in DOMAIN pair[1].results
                      /\ pair[1].results[pair[2]].matchId = matchId})
    + StoredFor(matchId)

\* C37: with interleaved processMatches invocations and submitOrder calls
\* adding matches meanwhile, every match is taken by exactly one
\* invocation, and the queue is empty once every invocation has returned
C37_SettledByOneInvocation ==
    /\ \A k \in DOMAIN completedMatches :
          Holders(completedMatches[k].matchId) = 1
    /\ invocations = {} => matchQueue = <<>>

\* two invocations are suspended at once, each settling its own match
C37_Witness ==
    /\ Cardinality(invocations) = 2
    /\ Len(completedMatches) = 2

(* ----------------------------- self-trades ---------------------------- *)
\* a match whose buy and sell order came from the same trader
SelfTrade ==
    [matchId |-> "m1", buyerAddress |-> "T1", sellerAddress |-> "T1",
     asset |-> "A1"]

\* the payloads of an event, those about the self-trade included
TradePayloads(event) ==
    Payloads(event) \cup
    (IF event = "order:matched"
        THEN {[matchId |-> SelfTrade.matchId,
               buyerAddress |-> SelfTrade.buyerAddress,
               sellerAddress |-> SelfTrade.sellerAddress,
               asset |-> SelfTrade.asset,
               executionPrice |-> 2, executionQuantity |-> 1]}
     ELSE IF event \in MatchScoped \ {"signature:added"}
        THEN {[matchId |-> SelfTrade.matchId,
               buyerAddress |-> SelfTrade.buyerAddress,
               sellerAddress |-> SelfTrade.sellerAddress]}
     ELSE {})

NextSelfTrade ==
    \/ \E ws \in Sockets : Connect(ws)
    \/ (Cardinality(Subscribed) < MaxSubscribed
          /\ \E ws \in Sockets, ch \in Channels : Subscribe(ws, ch))
    \/ \E ws \in Sockets, ch \in Channels : Unsubscribe(ws, ch)
    \/ \E event \in EventNames :
          \E data \in TradePayloads(event) : Publish(event, data)

SpecSelfTrade == Init /\ [][NextSelfTrade]_vars

\* the broadcasts of the last event that reached the socket
BroadcastsTo(ws) ==
    {k \in DOMAIN lastPublished.channels :
        <<lastPublished.channels[k], ws>> \in lastPublished.deliveries}

\* C38: the broadcasts of an event go to pairwise distinct channels, so a
\* socket subscribed to one channel gets the event at most once, also
\* when the buyer and the seller of the match are the same address
C38_OncePerChannel ==
    /\ \A i, j \in DOMAIN lastPublished.channels :
          lastPublished.channels[i] = lastPublished.channels[j] => i = j
    /\ \A ws \in Sockets :
          Cardinality({lastPublished.channels[k] : k \in BroadcastsTo(ws)}) = 1
              => Cardinality(BroadcastsTo(ws)) = 1

====
